---- MODULE Spec2Model ----
(***************************************************************************)
(* tsnet-proxy: the service lifecycle manager (internal/manager) and the   *)
(* health checker (internal/health), driven by main (cmd/tsnet-proxy) and  *)
(* by the administrative API (internal/ui).                                *)
(*                                                                         *)
(* A Service object is a heap object with an identity of its own (ObjIds); *)
(* the registry m.services maps a name to one of them.  Manager operations *)
(* run under m.mu; they are modelled step by step (pc), so that what a     *)
(* prober or a serving goroutine can observe while the lock is held is     *)
(* part of the state space.                                                *)
(*                                                                         *)
(* Specifications: Spec (the lifecycle), SpecHealth (the probers) and      *)
(* SpecHealthFair (the probers with their scheduling), SpecDispatch (the   *)
(* request handler), SpecList (GetAllServices and its callers), SpecInput  *)
(* (what names and backends get registered), SpecValidate                  *)
(* (Config.Validate), SpecApi (the administrative handlers and the config  *)
(* file), SpecConc (concurrent callers of the manager), SpecLock (probers  *)
(* and requests beside the registry lock), SpecProbe and SpecProbeFair     *)
(* (one probe, from the tick to the counted result), SpecReplace (a name   *)
(* removed and added again), SpecSame (two adds of one name), SpecRemove   *)
(* (removals whose release fails), SpecShared (two handlers updating the   *)
(* config's service list).                                                 *)
(***************************************************************************)
EXTENDS Integers, Sequences, FiniteSets, TLC

\* ------------------------------------------------------------------ bounds

\* Service objects on the heap at one time (an object nothing refers to any
\* more is collected and its slot reused).
MaxObjs == 3
\* Cap on a prober's failureCount (an unbounded int in the code).
MaxFail == 3

\* ------------------------------------------------------------- vocabulary

Names == {"a", "b"}
NoName == "-"

\* Names a request or a config file can also carry: the empty name, and one
\* with an upper-case letter and an underscore.  AnyNames are the keys
\* m.services can have.
OddNames == {"", "A_b"}

AnyNames == Names \cup OddNames

ApiTasks == {"api1"}

\* a second task that calls the manager at the same time
PeerTasks == {"api2"}

Tasks == {"main"} \cup ApiTasks \cup PeerTasks

ObjIds == 1..MaxObjs
NoObj == 0

\* Backend URL strings, by what url.Parse and the http(s):// prefix test of
\* Config.Validate make of them.
Backends == {"http://ok", "http://[bad"}

\* Backend strings a request can also carry: another scheme, and none at all
OddBackends == {"ftp://ok", ""}

\* url.Parse(cfg.Backend) succeeds
UrlParses(backend) == backend \notin {"http://[bad", "%zz"}

\* strings.HasPrefix(svc.Backend, "http://") || strings.HasPrefix(.., "https://")
HasHttpPrefix(backend) == backend \in {"http://ok", "https://ok", "http://[bad"}

\* config.ServiceConfig, with the fields the lifecycle and the prober read
NoCfg ==
  [name |-> NoName, backend |-> "", hc |-> FALSE, thr |-> 0,
   paths |-> <<>>, strip |-> FALSE, hcPath |-> ""]

\* a ServiceConfig with no path prefixes (it matches every path); an enabled
\* health check has its path
mkCfg(n, b, h, t) ==
  [name |-> n, backend |-> b, hc |-> h, thr |-> t, paths |-> <<>>, strip |-> FALSE,
   hcPath |-> IF h THEN "/health" ELSE ""]

\* the same ServiceConfig with Paths and StripPrefix set
withPaths(c, ps, sp) == [c EXCEPT !.paths = ps, !.strip = sp]

\* URL paths and path prefixes, as their characters
Slash == <<"/">>

PathAp == <<"/", "a", "p">>

PathApi == <<"/", "a", "p", "i">>

PathApiU == <<"/", "a", "p", "i", "/", "u">>

PathOther == <<"/", "o">>

\* r.URL.Path of the requests that arrive
RequestPaths == {Slash, PathAp, PathApi, PathApiU, PathOther}

\* svc.Config.Paths: none, one prefix, two overlapping prefixes in both orders
PathSets == { <<>>, <<PathApi>>, <<PathAp, PathApi>>, <<PathApi, PathAp>> }

\* Thresholds a YAML config or an API request can carry (0 = unset).
RawThresholds == {-1, 0, 1, 2}

RawCfgs ==
  { mkCfg(n, b, h, t) : n \in Names, b \in Backends, h \in BOOLEAN, t \in RawThresholds }

\* Specs with health-check disabled carry no health-check fields.
InputCfgs == { c \in RawCfgs : ~c.hc => c.thr = 0 }

\* Config.Validate, per service: the defaults it fills in
DefaultThreshold == 3

FillDefaults(c) ==
  IF c.hc /\ c.thr = 0 THEN [c EXCEPT !.thr = DefaultThreshold] ELSE c

\* Config.Validate, per service: what it accepts
ValidService(c) ==
  /\ c.name # "" /\ c.backend # "" /\ HasHttpPrefix(c.backend)
  /\ c.hc => c.hcPath # ""

RECURSIVE SeqNames(_)
SeqNames(s) == IF s = <<>> THEN {} ELSE {s[1].name} \cup SeqNames(Tail(s))

\* Config.Validate accepts the list: every service valid, no duplicate name
ValidConfig(s) ==
  /\ \A i \in 1..Len(s) : ValidService(s[i])
  /\ Cardinality(SeqNames(s)) = Len(s)

Validate(s) == [i \in 1..Len(s) |-> FillDefaults(s[i])]

\* The service lists of the config files loaded.  For the lifecycle: no
\* service, one service "a" (unprobed, or probed with the threshold unset),
\* or an unprobed "a" followed by a probed "b".
ConfigFiles ==
  LET ok == "http://ok"
  IN { <<>>,
       << mkCfg("a", ok, FALSE, 0) >>,
       << mkCfg("a", ok, TRUE, 0) >>,
       << mkCfg("a", ok, FALSE, 0), mkCfg("b", ok, TRUE, 0) >> }

\* For the request handler: one probed service "a" with threshold 1, with
\* each path set, strip-prefix on or off.
DispatchConfigFiles ==
  { << withPaths(mkCfg("a", "http://ok", TRUE, 1), ps, sp) >> :
      ps \in PathSets, sp \in BOOLEAN }

\* What a request to add a service or a config file can carry, health checks
\* off: a well-formed or an odd name, a well-formed or an odd backend.
AnyCfgs ==
  { mkCfg(n, b, FALSE, 0) : n \in {"a"} \cup OddNames, b \in Backends \cup OddBackends }

\* For the validation of what is registered: config files with one service,
\* and the empty one.  Load rejects a file that Validate rejects, and main
\* does not start.
InputConfigFiles == { <<>> } \cup { <<c>> : c \in AnyCfgs }

\* For the callers of GetAllServices: one unprobed service "a".
ListConfigFiles == { << mkCfg("a", "http://ok", FALSE, 0) >> }

\* For the health state machine: a probed service "a" with each threshold,
\* alone or followed by a second probed service "b" with threshold unset or 1.
HealthConfigFiles ==
  LET ok == "http://ok"
      as == { mkCfg("a", ok, TRUE, t) : t \in RawThresholds }
      bs == { mkCfg("b", ok, TRUE, t) : t \in RawThresholds \cap (0..1) }
  IN { <<c>> : c \in as } \cup { <<c, d>> : c \in as, d \in bs }

\* ------------------------------------------------------------------ state

VARIABLES
  services,    \* m.services: Names -> ObjIds \cup {NoObj}
  mu,          \* holder of m.mu (exclusive): "free" or a task
  objs,        \* the Service objects: ObjIds -> record
  pc,          \* Tasks -> position inside the manager call in progress
  local,       \* Tasks -> the call's arguments, locals and return value
  phase,       \* position of main
  cfgServices, \* cfg.Services, the loaded (validated) config
  mainIdx,     \* main's loop index over cfg.Services
  ctxDone,     \* main's context has been cancelled
  stopClosed,  \* Checker.stopCh has been closed
  probers,     \* ObjIds -> the runHealthCheck goroutine of that Service
  req,         \* the request a serving goroutine is handling, or has last handled
  got,         \* the map a caller of GetAllServices holds
  val,         \* a Config object handed to Config.Validate, and what it returned
  handler,     \* the administrative request each API task is handling
  configFile,  \* the names of the services in the config file on disk
  lookup,      \* a caller of Manager.GetService and what it got
  lastOk,      \* per name, the last mutation that returned nil
  underLock,   \* which of "probe", "request" ran while m.mu was held
  probe,       \* the performCheck a prober is in, or has last returned from
  saver        \* per handler task, where it is in updating h.config and the file

\* what the manager, main and the probers leave alone
\* what only the administrative handlers, Validate and the lookups touch
adminVars == <<val, handler, configFile, lookup, lastOk, underLock, probe, saver>>

clientVars == <<req, got, val, handler, configFile, lookup, lastOk, underLock, probe, saver>>

vars == <<services, mu, objs, pc, local, phase, cfgServices, mainIdx,
          ctxDone, stopClosed, probers, req, got, val, handler, configFile,
          lookup, lastOk, underLock, probe, saver>>

\* (mutant of NewService: the flag keeps the zero value of atomic.Bool)
NewServiceZeroFlag(cfg) ==
  [ cfg |-> cfg, healthy |-> FALSE, tsnetServer |-> FALSE, reverseProxy |-> FALSE,
    ts |-> "none", httpsLn |-> "none", httpLn |-> "none", serving |-> {},
    closes |-> 0 ]

\* manager.Service, and the tsnet.Server / listeners created for it
NewService(cfg) ==
  [ cfg          |-> cfg,
    healthy      |-> TRUE,      \* svc.healthy.Store(true)
    tsnetServer  |-> FALSE,     \* svc.tsnetServer != nil
    reverseProxy |-> FALSE,     \* svc.reverseProxy != nil
    ts           |-> "none",    \* the tsnet.Server: none, failed, started, closed
    httpsLn      |-> "none",    \* none, open, closed
    httpLn       |-> "none",
    serving      |-> {},        \* http.Serve goroutines started
    closes       |-> 0 ]        \* calls of ts.Close() so far

Unallocated == [NewService(NoCfg) EXCEPT !.healthy = FALSE]

\* A runHealthCheck goroutine: its position, its failureCount, and, recorded
\* for the claims, what the backend did: streak, the failed probes in a row,
\* and recovered, whether the last probe succeeded and found the flag false.
NoProber ==
  [ state |-> "none", failureCount |-> 0, streak |-> 0, recovered |-> FALSE,
    ticker |-> "none" ]

\* A task's frame: the manager call it is in (or has last returned from), the
\* call's argument and locals, and its return value.  Recorded for the
\* claims: follows, the task's previous call ("add" or "remove") when that
\* call succeeded on the same name; failed, the names whose deleteDevice
\* reported an error during Shutdown; and, to compare the state before an add
\* with the state after the remove that follows it, the registered names and
\* the number of running probers as they were when the add began (clean:
\* nothing but this task has changed either since).
NoLocal ==
  [ op |-> "none", name |-> NoName, svc |-> NoObj, ret |-> "none",
    snapNames |-> {}, snapProbers |-> 0, clean |-> FALSE, follows |-> "none",
    visited |-> {}, failed |-> {} ]

\* No request yet.  path is r.URL.Path as it arrived and fwdPath as the
\* handler left it; sawHealthy is what svc.IsHealthy() returned; calls counts
\* the invocations of proxy.ServeHTTP and out is what the invocation met;
\* origin is who wrote the response.
NoReq ==
  [ state |-> "none", svc |-> NoObj, path |-> <<>>, fwdPath |-> <<>>,
    sawHealthy |-> FALSE, status |-> 0, origin |-> "none", calls |-> 0,
    out |-> [err |-> FALSE, status |-> 0],
    orphan |-> FALSE ]   \* its Service was not registered when the forward returned

\* No map held.  ref tells whether the map held is a map of its own ("copy")
\* or the registry's map itself ("alias"); m is the content of a map of its
\* own.  Recorded for the claims: last, the holder's last operation, and tick,
\* which flips at each of them.
NoMap == [ ref |-> "none", m |-> <<>>, last |-> "none", tick |-> FALSE ]

Registered == { n \in AnyNames : services[n] # NoObj }

\* The heap: a Service stays for as long as the registry, a call frame, its
\* prober or one of its serving goroutines refers to it.
Referenced(o, ob, sv, lo, pr) ==
  \/ \E n \in AnyNames : sv[n] = o
  \/ \E t \in Tasks : lo[t].svc = o
  \/ pr[o].state = "running"
  \/ req.svc = o
  \/ \E n \in DOMAIN got.m : got.m[n] = o
  \/ lookup.result = o
  \/ \E l \in ob[o].serving : (IF l = "https" THEN ob[o].httpsLn ELSE ob[o].httpLn) = "open"

Collect(ob, sv, lo, pr) ==
  [o \in ObjIds |-> IF Referenced(o, ob, sv, lo, pr) THEN ob[o] ELSE Unallocated]

CollectProbers(ob, sv, lo, pr) ==
  [o \in ObjIds |-> IF Referenced(o, ob, sv, lo, pr) THEN pr[o] ELSE NoProber]

FreeObjs == { o \in ObjIds : objs[o] = Unallocated }

\* the slot NewService takes
NewObj == CHOOSE o \in FreeObjs : \A q \in FreeObjs : o <= q

RunningProbers == { o \in ObjIds : probers[o].state = "running" }

\* no Config object is under validation
NoVal == [state |-> "none", in |-> <<>>, cfg |-> <<>>, err |-> "nil"]

\* no administrative request has arrived.  before is the registry and
\* h.config.Services as the request found them.
NoHandler ==
  [state |-> "none", kind |-> "none", cfg |-> NoCfg, name |-> NoName, status |-> 0,
   before |-> [services |-> <<>>, config |-> <<>>]]

\* no performCheck has begun
\* A handler task outside the config update.  read is what it read of
\* h.config.Services, data what yaml.Marshal made of h.config
NoSaver ==
  [state |-> "none", kind |-> "none", name |-> NoName, read |-> <<>>, data |-> <<>>]

\* seen: the Service registered under the probed one's name when the probe
\* was counted
NoProbe ==
  [state |-> "none", svc |-> NoObj, backend |-> "none",
   out |-> [err |-> "none", status |-> 0], result |-> FALSE, seen |-> NoObj]

\* nobody has called GetService
NoLookup == [state |-> "none", name |-> NoName, result |-> NoObj]

\* the names of a list of ServiceConfigs, in order
ServiceNames(list) == [i \in 1..Len(list) |-> list[i].name]

InitWith(files) ==
  /\ services = [n \in AnyNames |-> NoObj]
  /\ mu = "free"
  /\ objs = [o \in ObjIds |-> Unallocated]
  /\ pc = [t \in Tasks |-> "idle"]
  /\ local = [t \in Tasks |-> NoLocal]
  /\ phase = "load"
  /\ \E file \in files :
       /\ ValidConfig(file)
       /\ cfgServices = Validate(file)
       /\ configFile = ServiceNames(file)
  /\ mainIdx = 1
  /\ ctxDone = FALSE
  /\ stopClosed = FALSE
  /\ probers = [o \in ObjIds |-> NoProber]
  /\ req = NoReq
  /\ got = NoMap
  /\ val = NoVal
  /\ handler = [t \in ApiTasks |-> NoHandler]
  /\ lookup = NoLookup
  /\ lastOk = [n \in Names |-> "none"]
  /\ underLock = {}
  /\ probe = NoProbe
  /\ saver = [t \in Tasks |-> NoSaver]

Init == InitWith(ConfigFiles)

InitHealth == InitWith(HealthConfigFiles)

InitDispatch == InitWith(DispatchConfigFiles)

InitList == InitWith(ListConfigFiles)

InitInput == InitWith(InputConfigFiles)

\* ------------------------------------------------------------ the registry

\* (a lookup that never finds the name)
NeverExists(name) == FALSE

\* _, exists := m.services[name]
Exists(name) == services[name] # NoObj

\* tsnet.Server.Close: the node goes down and every listener it gave out is
\* closed with it
tsClose(s) ==
  [s EXCEPT !.ts = "closed",
            !.closes = @ + 1,
            !.httpsLn = IF @ = "open" THEN "closed" ELSE @,
            !.httpLn = IF @ = "open" THEN "closed" ELSE @]

\* the tsnet.Server of this Service is up, or one of its listeners is open
Live(s) == s.ts = "started" \/ s.httpsLn = "open" \/ s.httpLn = "open"

\* The http.Serve goroutines of this Service that are accepting: http.Serve
\* returns as soon as its listener is closed.
ServingTasks(s) ==
  { l \in s.serving : (IF l = "https" THEN s.httpsLn ELSE s.httpLn) = "open" }

\* Another task changed the registry or the set of running probers: the
\* snapshots other tasks took are no longer of "the state just before".
Stale(f) == [f EXCEPT !.clean = FALSE, !.snapNames = {}, !.snapProbers = 0]

Touch(loc, t) == [u \in Tasks |-> IF u = t THEN loc[u] ELSE Stale(loc[u])]

TouchAll(loc) == [u \in Tasks |-> Stale(loc[u])]

\* return from a manager call: defer m.mu.Unlock()
Return(t, r) ==
  /\ local' = [local EXCEPT ![t].ret = r]
  /\ pc' = [pc EXCEPT ![t] = "idle"]
  /\ mu' = "free"

\* ------------------------------------------------------ Manager.AddService

\* (mutant of Lock: the lock is held for the duplicate check only)
LockForCheckOnly(t) == "free"

\* m.mu.Lock(); defer m.mu.Unlock(): m.mu while the call of t goes on
Lock(t) == t

\* m.mu.Lock(); the duplicate check; svc := NewService(cfg); ts := &tsnet.Server{}
AddBegin(t, cfg) ==
  /\ pc[t] = "idle"
  /\ mu = "free"
  /\ IF Exists(cfg.name)
       THEN /\ local' = [local EXCEPT ![t] =
                 [NoLocal EXCEPT !.op = "add", !.name = cfg.name, !.ret = "exists"]]
            /\ objs' = Collect(objs, services, local', probers)
            /\ probers' = CollectProbers(objs, services, local', probers)
            /\ UNCHANGED <<pc, mu>>
       ELSE /\ FreeObjs # {}
            /\ local' = [local EXCEPT ![t] =
                 [NoLocal EXCEPT !.op = "add", !.name = cfg.name,
                                 !.svc = NewObj,
                                 !.snapNames = Registered,
                                 !.snapProbers = Cardinality(RunningProbers),
                                 !.clean = TRUE]]
            /\ objs' = Collect([objs EXCEPT ![NewObj] = NewService(cfg)],
                               services, local', probers)
            /\ probers' = CollectProbers(objs', services, local', probers)
            /\ pc' = [pc EXCEPT ![t] = "add_start"]
            /\ mu' = Lock(t)
  /\ UNCHANGED services

\* ts.Start()
AddStart(t) ==
  /\ pc[t] = "add_start"
  /\ \E ok \in BOOLEAN :
       IF ok
         THEN /\ objs' = [objs EXCEPT ![local[t].svc].ts = "started"]
              /\ pc' = [pc EXCEPT ![t] = "add_tls"]
              /\ UNCHANGED <<local, mu>>
         ELSE /\ objs' = [objs EXCEPT ![local[t].svc].ts = "failed"]
              /\ Return(t, "start_failed")
  /\ UNCHANGED <<services, probers>>

\* (an error return that forgets ts.Close())
LeakOnError(s) == s

\* A provisioning step after ts.Start failed: ts.Close() before the return
OnProvisionError(s) == tsClose(s)

\* ts.ListenTLS("tcp", ":443")
AddListenTLS(t) ==
  /\ pc[t] = "add_tls"
  /\ \E ok \in BOOLEAN :
       IF ok
         THEN /\ objs' = [objs EXCEPT ![local[t].svc].httpsLn = "open"]
              /\ pc' = [pc EXCEPT ![t] = "add_http"]
              /\ UNCHANGED <<local, mu>>
         ELSE /\ objs' = [objs EXCEPT ![local[t].svc] = OnProvisionError(@)]
              /\ Return(t, "https_failed")
  /\ UNCHANGED <<services, probers>>

\* ts.Listen("tcp", ":80")
AddListen(t) ==
  /\ pc[t] = "add_http"
  /\ \E ok \in BOOLEAN :
       IF ok
         THEN /\ objs' = [objs EXCEPT ![local[t].svc].httpLn = "open"]
              /\ pc' = [pc EXCEPT ![t] = "add_parse"]
              /\ UNCHANGED <<local, mu>>
         ELSE /\ objs' = [objs EXCEPT ![local[t].svc] = OnProvisionError(@)]
              /\ Return(t, "http_failed")
  /\ UNCHANGED <<services, probers>>

\* the two "go func() { http.Serve(ln, handler) }()"
StartServing(s) == [s EXCEPT !.serving = {"https", "http"}]

\* url.Parse(cfg.Backend); the reverse proxy and the handler; the two
\* serving goroutines
AddParse(t) ==
  /\ pc[t] = "add_parse"
  /\ IF UrlParses(objs[local[t].svc].cfg.backend)
       THEN /\ objs' = [objs EXCEPT ![local[t].svc] = StartServing(@)]
            /\ pc' = [pc EXCEPT ![t] = "add_register"]
            /\ UNCHANGED <<local, mu>>
       ELSE /\ objs' = [objs EXCEPT ![local[t].svc] = OnProvisionError(@)]
            /\ Return(t, "invalid_url")
  /\ UNCHANGED <<services, probers>>

\* (a registration that leaves svc.reverseProxy unset)
SetHandlesPartial(s) == [s EXCEPT !.tsnetServer = TRUE]

\* svc.tsnetServer = ts; svc.reverseProxy = proxy
SetHandles(s) == [s EXCEPT !.tsnetServer = TRUE, !.reverseProxy = TRUE]

\* (mutant of Insert: the map is replaced by one with this entry alone)
InsertLosing(m, name, o) == [n \in DOMAIN m |-> IF n = name THEN o ELSE NoObj]

\* m.services[cfg.Name] = svc
Insert(m, name, o) == [m EXCEPT ![name] = o]

\* the handles, the insertion, return nil
AddRegister(t) ==
  /\ pc[t] = "add_register"
  /\ objs' = [objs EXCEPT ![local[t].svc] = SetHandles(@)]
  /\ services' = Insert(services, local[t].name, local[t].svc)
  /\ local' = [Touch(local, t) EXCEPT ![t].ret = "nil"]
  /\ pc' = [pc EXCEPT ![t] = "idle"]
  /\ mu' = "free"
  /\ UNCHANGED probers

\* --------------------------------------------------- Manager.RemoveService

\* m.mu.Lock(); svc, exists := m.services[name]
RemoveBegin(t, name) ==
  /\ pc[t] = "idle"
  /\ mu = "free"
  /\ LET prev == IF local[t].ret = "nil" /\ local[t].name = name
                     /\ local[t].op \in {"add", "remove"}
                   THEN local[t].op ELSE "none"
         old == IF prev = "add" /\ local[t].svc = services[name]
                  THEN local[t] ELSE Stale(local[t])
         frame == [NoLocal EXCEPT !.op = "remove", !.name = name, !.follows = prev]
     IN IF ~Exists(name)
          THEN /\ local' = [local EXCEPT ![t] = [frame EXCEPT !.ret = "not_found"]]
               /\ UNCHANGED <<pc, mu>>
          ELSE /\ local' = [local EXCEPT ![t] =
                    [frame EXCEPT !.svc = services[name],
                                  !.clean = old.clean,
                                  !.snapNames = old.snapNames,
                                  !.snapProbers = old.snapProbers]]
               /\ pc' = [pc EXCEPT ![t] = "rm_close"]
               /\ mu' = t
  /\ objs' = Collect(objs, services, local', probers)
  /\ probers' = CollectProbers(objs, services, local', probers)
  /\ UNCHANGED services

\* (a removal that closes nothing)
ReleaseNothing(s) == s

\* if svc.tsnetServer != nil { m.deleteDevice(..); svc.tsnetServer.Close() }
\* (deleteDevice talks to the control plane only; an error of either call is
\* logged and dropped)
Release(s) == IF s.tsnetServer THEN tsClose(s) ELSE s

\* the calls of the release that may report an error: deleteDevice (which
\* logs it and returns nothing) and svc.tsnetServer.Close() (whose error is
\* logged)
ReleaseCalls == {"deleteDevice", "close"}

\* the release steps of RemoveService, errs being the calls that reported an
\* error; the frame keeps what was logged
RemoveRelease(t, errs) ==
  /\ pc[t] = "rm_close"
  /\ objs' = [objs EXCEPT ![local[t].svc] = Release(@)]
  /\ local' = [local EXCEPT ![t].failed = errs]
  /\ pc' = [pc EXCEPT ![t] = "rm_delete"]
  /\ UNCHANGED <<services, mu, probers>>

\* the release steps when nothing is logged
RemoveClose(t) == RemoveRelease(t, {})

\* (mutant of RemoveResult: the first error of the release is returned)
RemoveResultFirstError(failed) == IF failed = {} THEN "nil" ELSE "release_failed"

\* "return nil" at the end of RemoveService, whatever was logged
RemoveResult(failed) == "nil"

\* (a removal that leaves the entry in the map)
DeleteNothing(m, name) == m

\* delete(m.services, name)
Delete(m, name) == [m EXCEPT ![name] = NoObj]

RemoveDelete(t) ==
  /\ pc[t] = "rm_delete"
  /\ services' = Delete(services, local[t].name)
  /\ local' = [Touch(local, t) EXCEPT ![t].ret = RemoveResult(local[t].failed)]
  /\ pc' = [pc EXCEPT ![t] = "idle"]
  /\ mu' = "free"
  /\ UNCHANGED <<objs, probers>>

\* -------------------------------------------------------- Manager.Shutdown

ShutdownBegin(t) ==
  /\ pc[t] = "idle"
  /\ mu = "free"
  /\ mu' = t
  /\ pc' = [pc EXCEPT ![t] = "sd_loop"]
  /\ local' = [local EXCEPT ![t] = [NoLocal EXCEPT !.op = "shutdown"]]
  /\ objs' = Collect(objs, services, local', probers)
  /\ probers' = CollectProbers(objs, services, local', probers)
  /\ UNCHANGED services

\* One iteration of "for name, svc := range m.services" (map order).
\* deleteDevice may fail against the control plane: it logs the error and
\* returns, and svc.tsnetServer.Close() follows either way.
ShutdownClose(t) ==
  /\ pc[t] = "sd_loop"
  /\ \E n \in Registered \ local[t].visited, err \in BOOLEAN :
       /\ objs' = [objs EXCEPT ![services[n]] = Release(@)]
       /\ local' = [local EXCEPT ![t].visited = @ \cup {n},
                                 ![t].failed = IF err THEN @ \cup {n} ELSE @]
  /\ UNCHANGED <<services, mu, pc, probers>>

\* (a range loop that may stop before the last entry)
RangeDoneEarly(t) == TRUE

\* the range loop over m.services has visited every entry
RangeDone(t) == Registered \subseteq local[t].visited

\* m.services = make(map[string]*Service); the loop's position is gone with
\* the return, what was logged stays
ShutdownClear(t) ==
  /\ pc[t] = "sd_loop"
  /\ RangeDone(t)
  /\ services' = [n \in AnyNames |-> NoObj]
  /\ local' = [TouchAll(local) EXCEPT ![t].ret = "nil", ![t].visited = {}]
  /\ pc' = [pc EXCEPT ![t] = "idle"]
  /\ mu' = "free"
  /\ objs' = Collect(objs, services', local', probers)
  /\ probers' = CollectProbers(objs, services', local', probers)

\* ------------------------------------------------------- health.Checker

\* What one probe can meet: an error (the request cannot be built, the
\* connection fails, the probe times out), or a response with a status.
ProbeOutcomes ==
  { [err |-> e, status |-> 0] : e \in {"error"} }
    \cup { [err |-> "none", status |-> c] : c \in {200, 500} }

\* (mutant of performCheck: only a 2xx status is a success)
performCheckOnly2xx(out) == out.err = "none" /\ out.status >= 200 /\ out.status < 300

\* Checker.performCheck
performCheck(out) == out.err = "none" /\ out.status >= 200 /\ out.status < 400

\* Checker.Start: one runHealthCheck goroutine per service of the snapshot
\* that has health checks enabled
StartProbers(pr) ==
  [o \in ObjIds |->
     IF (\E n \in AnyNames : services[n] = o) /\ objs[o].cfg.hc
       THEN [NoProber EXCEPT !.state = "running", !.ticker = "running"]
       ELSE pr[o]]

\* (failureCount > cfg.UnhealthyThreshold)
ReachedThresholdStrict(count, thr) == count > thr

\* failureCount >= cfg.UnhealthyThreshold
ReachedThreshold(count, thr) == count >= thr

\* the !healthy branch of runHealthCheck: failureCount++
OnFailure(p) == [p EXCEPT !.failureCount = @ + 1]

\* (a healthy branch that keeps the count)
OnSuccessKeepCount(p) == p

\* the healthy branch of runHealthCheck: failureCount = 0
OnSuccess(p) == [p EXCEPT !.failureCount = 0]

\* the flag after a failed probe that left the counter at count
FlagAfterFailure(flag, count, thr) ==
  IF ReachedThreshold(count, thr) /\ flag THEN FALSE ELSE flag

\* (mutant of FlagLockFree: the health flag is guarded by the registry lock)
FlagUnderRegistryLock == mu = "free"

\* Service.healthy is an atomic.Bool: IsHealthy and SetHealthy take no lock
FlagLockFree == TRUE

\* case <-ticker.C of runHealthCheck for the Service o, the probe meeting out
\* (mutant of SetHealthy: one flag shared by all the services)
SetHealthyAll(ob, o, h) ==
  [x \in ObjIds |-> IF ob[x] = Unallocated THEN ob[x] ELSE [ob[x] EXCEPT !.healthy = h]]

\* (mutant of SetHealthy: the flag is looked up by the service's name, so
\* the write lands on the Service now registered under it)
SetHealthyByName(ob, o, h) ==
  LET n == ob[o].cfg.name
      t == IF n \in Names /\ services[n] # NoObj THEN services[n] ELSE o
  IN [ob EXCEPT ![t].healthy = h]

\* Service.SetHealthy, s.healthy.Store(healthy), on the Service o
SetHealthy(ob, o, h) == [ob EXCEPT ![o].healthy = h]

Probe(o, out) ==
  /\ probers[o].state = "running"
  /\ FlagLockFree
  /\ LET p == probers[o]
         thr == objs[o].cfg.thr
     IN IF performCheck(out)
          THEN /\ probers' = [probers EXCEPT ![o] =
                    [OnSuccess(p) EXCEPT !.streak = 0, !.recovered = ~objs[o].healthy]]
               /\ objs' = SetHealthy(objs, o, TRUE)
          ELSE /\ p.failureCount < MaxFail
               /\ probers' = [probers EXCEPT ![o] =
                    [OnFailure(p) EXCEPT !.streak = @ + 1, !.recovered = FALSE]]
               /\ objs' = SetHealthy(objs, o,
                    FlagAfterFailure(objs[o].healthy, OnFailure(p).failureCount, thr))
  /\ UNCHANGED <<services, mu, pc, local>>

\* return from runHealthCheck: defer ticker.Stop()
Returned(p) == [p EXCEPT !.state = "exited", !.ticker = "stopped"]

\* (mutant of ProberExit: a select without the ctx.Done() case)
ProberExitOnStopOnly(o) ==
  /\ probers[o].state = "running"
  /\ stopClosed
  /\ local' = TouchAll(local)
  /\ LET pr == [probers EXCEPT ![o] = Returned(@)]
     IN /\ objs' = Collect(objs, services, local', pr)
        /\ probers' = CollectProbers(objs, services, local', pr)
  /\ UNCHANGED <<services, mu, pc>>

\* case <-ctx.Done() / case <-c.stopCh of runHealthCheck
ProberExit(o) ==
  /\ probers[o].state = "running"
  /\ ctxDone \/ stopClosed
  /\ local' = TouchAll(local)
  /\ LET pr == [probers EXCEPT ![o] = Returned(@)]
     IN /\ objs' = Collect(objs, services, local', pr)
        /\ probers' = CollectProbers(objs, services, local', pr)
  /\ UNCHANGED <<services, mu, pc>>

\* ------------------------------------------------- Manager.GetAllServices

\* (a GetAllServices that returns m.services itself)
ReturnRegistryItself(sv) == [NoMap EXCEPT !.ref = "alias"]

\* services := make(..); for k, v := range m.services { services[k] = v }
GetAllServices(sv) == [NoMap EXCEPT !.ref = "copy", !.m = sv]

\* The content of the map the caller holds
Held == IF got.ref = "alias" THEN services ELSE got.m

\* A caller calls GetAllServices (m.mu.RLock: no writer holds the lock)
CallerGetAll ==
  /\ mu = "free"
  /\ got' = [GetAllServices(services) EXCEPT !.last = "get", !.tick = ~got.tick]
  /\ UNCHANGED <<services, mu, objs, pc, local, probers, req>>

\* The caller writes into the map it holds: returned[n] = o / delete(returned, n)
HeldWrite(n, o, what) ==
  /\ got.ref # "none"
  /\ Held[n] # o
  /\ IF got.ref = "alias"
       THEN /\ services' = [services EXCEPT ![n] = o]
            /\ got' = [got EXCEPT !.last = what, !.tick = ~@]
       ELSE /\ got' = [got EXCEPT !.m[n] = o, !.last = what, !.tick = ~@]
            /\ UNCHANGED services
  /\ UNCHANGED <<mu, objs, pc, local, probers, req>>

CallerInsert(n, o) ==
  /\ got.ref # "none"
  /\ \E k \in Names : Held[k] = o
  /\ HeldWrite(n, o, "insert")

CallerDelete(n) == HeldWrite(n, NoObj, "delete")

\* ------------------------------------------- the handler of createHandler

\* strings.HasPrefix(s, p)
HasPrefix(s, p) == Len(p) <= Len(s) /\ SubSeq(s, 1, Len(p)) = p

\* strings.TrimPrefix(s, p)
TrimPrefix(s, p) == IF HasPrefix(s, p) THEN SubSeq(s, Len(p) + 1, Len(s)) ELSE s

\* (a loop that keeps the last prefix the path has)
RECURSIVE LastMatch(_, _, _)
LastMatch(paths, path, i) ==
  IF i > Len(paths) THEN 0
  ELSE LET later == LastMatch(paths, path, i + 1)
       IN IF later # 0 THEN later
          ELSE IF HasPrefix(path, paths[i]) THEN i ELSE 0

\* "for _, path := range svc.Config.Paths { if HasPrefix { ..; break } }" from
\* index i on: the index of the prefix the loop stops at, 0 when it runs out
RECURSIVE FirstMatch(_, _, _)
FirstMatch(paths, path, i) ==
  IF i > Len(paths) THEN 0
  ELSE IF HasPrefix(path, paths[i]) THEN i
  ELSE FirstMatch(paths, path, i + 1)

\* if svc.Config.StripPrefix { r.URL.Path = TrimPrefix(..); if "" then "/" }
StripMatched(path, prefix, strip) ==
  IF strip
    THEN LET t == TrimPrefix(path, prefix) IN IF t = <<>> THEN Slash ELSE t
    ELSE path

\* (a handler without the health gate)
GateNeverCloses(healthy) == FALSE

\* if !svc.IsHealthy() { 503; return }
GateCloses(healthy) == ~healthy

\* (a matched flag that is always set)
MatchedAlways(cfg, path) == TRUE

\* matched, after the loop; true as well when there are no prefixes at all
Matched(cfg, path) == Len(cfg.paths) = 0 \/ FirstMatch(cfg.paths, path, 1) # 0

\* The handler up to proxy.ServeHTTP, for a request with this path on a
\* Service with this config, IsHealthy() having returned healthy.
Route(cfg, healthy, path) ==
  LET i == FirstMatch(cfg.paths, path, 1)
      base == [NoReq EXCEPT !.path = path, !.fwdPath = path, !.sawHealthy = healthy]
  IN IF GateCloses(healthy)
       THEN [base EXCEPT !.state = "done", !.status = 503, !.origin = "gate"]
     ELSE IF ~Matched(cfg, path)
       THEN [base EXCEPT !.state = "done", !.status = 404, !.origin = "router"]
     ELSE [base EXCEPT !.state = "forwarding", !.calls = 1,
                       !.fwdPath = IF i # 0
                                     THEN StripMatched(path, cfg.paths[i], cfg.strip)
                                     ELSE path]

\* A request arrives on a listener of Service o that an http.Serve goroutine
\* is accepting on, and the handler runs up to proxy.ServeHTTP
HandleBegin(o, path) ==
  /\ req.state # "forwarding"
  /\ ServingTasks(objs[o]) # {}
  /\ FlagLockFree
  /\ req' = [Route(objs[o].cfg, objs[o].healthy, path) EXCEPT !.svc = o]
  /\ UNCHANGED <<services, mu, objs, pc, local, probers, got>>

\* What proxy.ServeHTTP meets: a transport-level failure, or a response of
\* the backend with its status
ProxyOutcomes ==
  { [err |-> TRUE, status |-> 0] } \cup { [err |-> FALSE, status |-> c] : c \in {200, 503} }

\* (an error handler that answers 503)
ErrorHandlerUnavailable(r) ==
  [r EXCEPT !.state = "done", !.status = 503, !.origin = "errorHandler"]

\* proxy.ErrorHandler: http.Error(w, "Bad Gateway", http.StatusBadGateway)
ErrorHandler(r) == [r EXCEPT !.state = "done", !.status = 502, !.origin = "errorHandler"]

\* (a handler that marks the service unhealthy on a transport failure)
MarkedOnTransportError(s, out) == IF out.err THEN [s EXCEPT !.healthy = FALSE] ELSE s

\* What handling a request writes into the Service: nothing
ServiceAfterRequest(s, out) == s

\* the Service a request runs on is the one registered under its name
StillRegistered(r) ==
  LET n == objs[r.svc].cfg.name IN n \in Names /\ services[n] = r.svc

\* (mutant of Forwarded: the handler looks its service up in the registry
\* before it answers)
ForwardedIfRegistered(r, out) ==
  IF ~StillRegistered(r)
    THEN [r EXCEPT !.state = "done", !.status = 404, !.origin = "registry",
                   !.out = out, !.orphan = TRUE]
  ELSE IF out.err THEN ErrorHandler([r EXCEPT !.out = out])
  ELSE [r EXCEPT !.state = "done", !.status = out.status, !.origin = "backend",
                 !.out = out]

\* what the client gets when proxy.ServeHTTP, the forwarder the handler
\* closed over, returns
Forwarded(r, out) ==
  LET a == [r EXCEPT !.out = out, !.orphan = ~StillRegistered(r)]
  IN IF out.err THEN ErrorHandler(a)
     ELSE [a EXCEPT !.state = "done", !.status = out.status, !.origin = "backend"]

\* proxy.ServeHTTP(w, r) returns
HandleForward(out) ==
  /\ req.state = "forwarding"
  /\ req' = Forwarded(req, out)
  /\ objs' = [objs EXCEPT ![req.svc] = ServiceAfterRequest(@, out)]
  /\ UNCHANGED <<services, mu, pc, local, probers, got>>

\* ------------------------------------------------------------------ main

mainVars == <<phase, cfgServices, mainIdx, ctxDone, stopClosed>>

\* for _, svcCfg := range cfg.Services { mgr.AddService(svcCfg) }
MainAdd ==
  /\ phase = "load"
  /\ mainIdx <= Len(cfgServices)
  /\ AddBegin("main", cfgServices[mainIdx])
  /\ mainIdx' = mainIdx + 1
  /\ UNCHANGED <<phase, cfgServices, ctxDone, stopClosed>>
  /\ UNCHANGED clientVars

\* healthChecker.Start(ctx)
CheckerStart ==
  /\ phase = "load"
  /\ mainIdx > Len(cfgServices)
  /\ pc["main"] = "idle"
  /\ mu = "free"
  /\ probers' = StartProbers(probers)
  /\ local' = [local EXCEPT !["main"] = NoLocal]
  /\ objs' = Collect(objs, services, local', probers')
  /\ phase' = "checker"
  /\ UNCHANGED <<services, mu, pc, cfgServices, mainIdx, ctxDone,
                 stopClosed>>
  /\ UNCHANGED clientVars

\* uiServer.Start(): from here on the administrative API takes requests
UIStart ==
  /\ phase = "checker"
  /\ phase' = "serving"
  /\ UNCHANGED <<services, mu, objs, pc, local, probers, cfgServices,
                 mainIdx, ctxDone, stopClosed>>
  /\ UNCHANGED clientVars

\* <-sigChan; cancel()
MainCancel ==
  /\ phase = "serving"
  /\ ctxDone' = TRUE
  /\ phase' = "cancelled"
  /\ UNCHANGED <<services, mu, objs, pc, local, probers, cfgServices,
                 mainIdx, stopClosed>>
  /\ UNCHANGED clientVars

\* healthChecker.Stop(): close(c.stopCh)
CheckerStop ==
  /\ phase = "cancelled"
  /\ stopClosed' = TRUE
  /\ phase' = "stopped"
  /\ UNCHANGED <<services, mu, objs, pc, local, probers, cfgServices,
                 mainIdx, ctxDone>>
  /\ UNCHANGED clientVars

\* uiServer.Stop(); metricsServer.Stop(); mgr.Shutdown() begins
MainShutdown ==
  /\ phase = "stopped"
  /\ ShutdownBegin("main")
  /\ phase' = "shutdown"
  /\ UNCHANGED <<cfgServices, mainIdx, ctxDone, stopClosed>>
  /\ UNCHANGED clientVars

\* mgr.Shutdown() has returned; main returns and the process is gone
MainExit ==
  /\ phase = "shutdown"
  /\ pc["main"] = "idle"
  /\ phase' = "exited"
  /\ UNCHANGED <<services, mu, objs, pc, local, probers, cfgServices,
                 mainIdx, ctxDone, stopClosed>>
  /\ UNCHANGED clientVars

\* -------------------------------------------------- the administrative API

\* The API serves from uiServer.Start on; a handler already running when the
\* UI listener closes still runs to its end.
ApiUp == phase \in {"serving", "cancelled", "stopped", "shutdown"}

\* What APIHandler.AddService hands to Manager.AddService: the request's
\* fields as they came, no Validate and no defaults.
ApiCfgs == { c \in InputCfgs : c.thr = 0 }

ApiAdd(t, cfg) == ApiUp /\ AddBegin(t, cfg)

ApiRemove(t, name) == ApiUp /\ RemoveBegin(t, name)

\* ------------------------------------------------------------------- Next

\* Nothing runs once main has returned.
Running == phase # "exited"

\* A step of a manager call in progress, by one of the tasks T
StepAddStart(T) == \E t \in T : Running /\ AddStart(t) /\ UNCHANGED <<mainVars, clientVars>>

StepAddListenTLS(T) == \E t \in T : Running /\ AddListenTLS(t) /\ UNCHANGED <<mainVars, clientVars>>

StepAddListen(T) == \E t \in T : Running /\ AddListen(t) /\ UNCHANGED <<mainVars, clientVars>>

StepAddParse(T) == \E t \in T : Running /\ AddParse(t) /\ UNCHANGED <<mainVars, clientVars>>

StepAddRegister(T) == \E t \in T : Running /\ AddRegister(t) /\ UNCHANGED <<mainVars, clientVars>>

StepRemoveClose(T) == \E t \in T : Running /\ RemoveClose(t) /\ UNCHANGED <<mainVars, clientVars>>

StepRemoveDelete(T) == \E t \in T : Running /\ RemoveDelete(t) /\ UNCHANGED <<mainVars, clientVars>>

StepShutdownClose(T) == \E t \in T : Running /\ ShutdownClose(t) /\ UNCHANGED <<mainVars, clientVars>>

StepShutdownClear(T) == \E t \in T : Running /\ ShutdownClear(t) /\ UNCHANGED <<mainVars, clientVars>>

\* An administrative request reaches the manager
StepApiAdd == \E t \in ApiTasks, cfg \in ApiCfgs : ApiAdd(t, cfg) /\ UNCHANGED <<mainVars, clientVars>>

StepApiRemove == \E t \in ApiTasks, n \in Names : ApiRemove(t, n) /\ UNCHANGED <<mainVars, clientVars>>

\* A prober's ticker fires, or it sees a stop signal
StepProbe == \E o \in ObjIds, out \in ProbeOutcomes : Running /\ Probe(o, out) /\ UNCHANGED <<mainVars, clientVars>>

StepProberExit == \E o \in ObjIds : Running /\ ProberExit(o) /\ UNCHANGED <<mainVars, clientVars>>

\* A request reaches a service's handler; its forward returns
StepHandleBegin == \E o \in ObjIds, path \in RequestPaths : Running /\ HandleBegin(o, path) /\ UNCHANGED mainVars /\ UNCHANGED adminVars

StepHandleForward == \E out \in ProxyOutcomes : Running /\ HandleForward(out) /\ UNCHANGED mainVars /\ UNCHANGED adminVars

\* An administrative add of a plain service (no health check, a backend that
\* parses)
StepPlainAdd ==
  \E t \in ApiTasks, n \in Names :
    ApiAdd(t, mkCfg(n, "http://ok", FALSE, 0)) /\ UNCHANGED <<mainVars, clientVars>>

\* An administrative add of whatever a request can carry
StepAnyAdd ==
  \E t \in ApiTasks, cfg \in AnyCfgs :
    ApiAdd(t, cfg) /\ UNCHANGED <<mainVars, clientVars>>

\* A caller of GetAllServices, and what it does with the map
StepGetAll == Running /\ CallerGetAll /\ UNCHANGED mainVars /\ UNCHANGED adminVars

StepHeldInsert == \E n \in Names, o \in ObjIds : Running /\ CallerInsert(n, o) /\ UNCHANGED mainVars /\ UNCHANGED adminVars

StepHeldDelete == \E n \in Names : Running /\ CallerDelete(n) /\ UNCHANGED mainVars /\ UNCHANGED adminVars

Next ==
  \/ MainAdd
  \/ CheckerStart
  \/ UIStart
  \/ MainCancel
  \/ CheckerStop
  \/ MainShutdown
  \/ MainExit
  \/ StepApiAdd
  \/ StepApiRemove
  \/ StepAddStart(Tasks)
  \/ StepAddListenTLS(Tasks)
  \/ StepAddListen(Tasks)
  \/ StepAddParse(Tasks)
  \/ StepAddRegister(Tasks)
  \/ StepRemoveClose(Tasks)
  \/ StepRemoveDelete(Tasks)
  \/ StepShutdownClose(Tasks)
  \/ StepShutdownClear(Tasks)
  \/ StepProbe
  \/ StepProberExit

Spec == Init /\ [][Next]_vars

\* The health state machine on its own: start-up, the probers, shutdown; no
\* administrative request arrives.
NextHealth ==
  \/ MainAdd
  \/ CheckerStart
  \/ UIStart
  \/ MainCancel
  \/ CheckerStop
  \/ MainShutdown
  \/ MainExit
  \/ StepAddStart({"main"})
  \/ StepAddListenTLS({"main"})
  \/ StepAddListen({"main"})
  \/ StepAddParse({"main"})
  \/ StepAddRegister({"main"})
  \/ StepShutdownClose({"main"})
  \/ StepShutdownClear({"main"})
  \/ StepProbe
  \/ StepProberExit

SpecHealth == InitHealth /\ [][NextHealth]_vars

\* The same with the scheduling of the probers: select takes one of its ready
\* cases at random, and ctx.Done() and a closed stopCh stay ready, so a
\* prober that can return is not passed over for ever.
SpecHealthFair ==
  /\ SpecHealth
  /\ \A o \in ObjIds :
       WF_vars(Running /\ ProberExit(o) /\ UNCHANGED <<mainVars, clientVars>>)

\* The request handler: start-up, the prober, requests, shutdown.
NextDispatch ==
  \/ MainAdd
  \/ CheckerStart
  \/ UIStart
  \/ MainCancel
  \/ CheckerStop
  \/ MainShutdown
  \/ MainExit
  \/ StepAddStart({"main"})
  \/ StepAddListenTLS({"main"})
  \/ StepAddListen({"main"})
  \/ StepAddParse({"main"})
  \/ StepAddRegister({"main"})
  \/ StepShutdownClose({"main"})
  \/ StepShutdownClear({"main"})
  \/ StepProbe
  \/ StepProberExit
  \/ StepHandleBegin
  \/ StepHandleForward

SpecDispatch == InitDispatch /\ [][NextDispatch]_vars

\* The callers of GetAllServices: start-up, administrative adds and removes,
\* and a caller that lists the services and writes into what it got.
NextList ==
  \/ MainAdd
  \/ CheckerStart
  \/ UIStart
  \/ StepPlainAdd
  \/ StepApiRemove
  \/ StepAddStart(Tasks)
  \/ StepAddListenTLS(Tasks)
  \/ StepAddListen(Tasks)
  \/ StepAddParse(Tasks)
  \/ StepAddRegister(Tasks)
  \/ StepRemoveClose(Tasks)
  \/ StepRemoveDelete(Tasks)
  \/ StepGetAll
  \/ StepHeldInsert
  \/ StepHeldDelete

SpecList == InitList /\ [][NextList]_vars

\* What gets registered: start-up from a config file that Load accepted, and
\* administrative adds of any name and backend.
NextInput ==
  \/ MainAdd
  \/ CheckerStart
  \/ UIStart
  \/ StepAnyAdd
  \/ StepAddStart(Tasks)
  \/ StepAddListenTLS(Tasks)
  \/ StepAddListen(Tasks)
  \/ StepAddParse(Tasks)
  \/ StepAddRegister(Tasks)

SpecInput == InitInput /\ [][NextInput]_vars

\* ----------------------------------------------------------- Config.Validate

\* config.Config with every field Validate reads or writes.  Durations are in
\* seconds.
DefaultStateDir == "/data/tsnet"
DefaultInterval == 30
DefaultTimeout == 5
DefaultUIHostname == "tsnet-proxy-ui"
DefaultUIPort == 8080
DefaultMetricsPort == 9090

\* config.ServiceConfig: mkCfg's fields and the rest of HealthCheckConfig and
\* TLSConfig
mkServiceConfig(n, b, h, hp, iv, to, t, tls) ==
  [name |-> n, backend |-> b, hc |-> h, thr |-> t, paths |-> <<Slash>>,
   strip |-> FALSE, hcPath |-> hp, interval |-> iv, timeout |-> to, tls |-> tls]

mkConfig(ak, sd, svcs, ui, mt) ==
  [authKey |-> ak, stateDir |-> sd, services |-> svcs, ui |-> ui, metrics |-> mt]

\* the health-check block of a service as a file can spell it:
\* <<enabled, path, interval, timeout, threshold>>
HealthBlocks ==
  { <<FALSE, "", 0, 0, 0>>, <<FALSE, "/h", 10, 2, 2>>, <<TRUE, "", 0, 0, 0>>,
    <<TRUE, "/h", 0, 0, 0>>, <<TRUE, "/h", 10, 2, 2>>, <<TRUE, "/h", 10, 0, -1>> }

FileServices ==
  { mkServiceConfig(n, b, hb[1], hb[2], hb[3], hb[4], hb[5], tls) :
      n \in {"", "a", "b"}, b \in {"", "ftp://ok", "http://ok"},
      hb \in HealthBlocks, tls \in {FALSE} }
  \cup { mkServiceConfig("a", "https://ok", TRUE, "/h", 0, 2, 0, TRUE) }

UIBlocks ==
  { [enabled |-> e, hostname |-> h, port |-> p] :
      e \in BOOLEAN, h \in {"", "ui"}, p \in {0, 81} }

MetricsBlocks == { [enabled |-> e, port |-> p] : e \in BOOLEAN, p \in {0, 91} }

\* the files Validate is applied to: any two services with one top-level
\* block, and any top-level blocks with one pair of services
FileConfigs ==
  { mkConfig(ak, "", <<>>, ui, mt) :
      ak \in {"", "k"}, ui \in UIBlocks, mt \in MetricsBlocks }
  \cup { mkConfig(ak, sd, <<s>>, [enabled |-> TRUE, hostname |-> "", port |-> 0],
                  [enabled |-> FALSE, port |-> 0]) :
           ak \in {"", "k"}, sd \in {"", "/s"}, s \in FileServices }
  \cup { mkConfig("k", "", <<s1, s2>>, [enabled |-> FALSE, hostname |-> "", port |-> 0],
                  [enabled |-> TRUE, port |-> 0]) :
           s1 \in { s \in FileServices : s.name # "" /\ s.backend = "http://ok" },
           s2 \in FileServices }

\* mutant of HealthPathMissing: an enabled health check without a path passes
HealthPathNeverMissing(svc) == FALSE

\* config.go 80: health checks enabled and no path given
HealthPathMissing(svc) == svc.hc /\ svc.hcPath = ""

\* mutant of ServiceDefaults: the defaults are written over set fields too
ServiceDefaultsOverwrite(svc) ==
  [svc EXCEPT !.interval = DefaultInterval, !.timeout = DefaultTimeout,
              !.thr = DefaultThreshold]

\* mutant of ServiceDefaults: the threshold is left as it is
ServiceDefaultsNoThreshold(svc) ==
  IF svc.hc
    THEN [svc EXCEPT
            !.interval = IF svc.interval = 0 THEN DefaultInterval ELSE @,
            !.timeout = IF svc.timeout = 0 THEN DefaultTimeout ELSE @]
    ELSE svc

\* config.go 79-92: the defaults of an enabled health check
ServiceDefaults(svc) ==
  IF svc.hc
    THEN [svc EXCEPT
            !.interval = IF svc.interval = 0 THEN DefaultInterval ELSE @,
            !.timeout = IF svc.timeout = 0 THEN DefaultTimeout ELSE @,
            !.thr = IF svc.thr = 0 THEN DefaultThreshold ELSE @]
    ELSE svc

\* config.go 60-93: the loop over c.Services; it writes the defaults of
\* service i into c before it looks at service i+1, and returns at the first
\* defect
RECURSIVE ValidateServices(_, _, _)
ValidateServices(c, i, serviceNames) ==
  IF i > Len(c.services) THEN [err |-> "nil", cfg |-> c]
  ELSE LET svc == c.services[i] IN
    IF svc.name = "" THEN [err |-> "name is required", cfg |-> c]
    ELSE IF svc.name \in serviceNames
      THEN [err |-> "duplicate service name", cfg |-> c]
    ELSE IF svc.backend = ""
      THEN [err |-> "backend URL is required", cfg |-> c]
    ELSE IF ~HasHttpPrefix(svc.backend)
      THEN [err |-> "backend URL must start with http:// or https://", cfg |-> c]
    ELSE IF HealthPathMissing(svc)
      THEN [err |-> "healthCheck.path is required", cfg |-> c]
    ELSE ValidateServices([c EXCEPT !.services[i] = ServiceDefaults(svc)],
                          i + 1, serviceNames \cup {svc.name})

\* config.go 95-106: the defaults of the management UI and of metrics
TopLevelDefaults(c) ==
  [c EXCEPT
     !.ui.hostname = IF c.ui.enabled /\ c.ui.hostname = ""
                       THEN DefaultUIHostname ELSE @,
     !.ui.port = IF c.ui.enabled /\ c.ui.port = 0 THEN DefaultUIPort ELSE @,
     !.metrics.port = IF c.metrics.enabled /\ c.metrics.port = 0
                        THEN DefaultMetricsPort ELSE @]

\* Config.Validate: the error it returns and the Config it leaves behind
ConfigValidate(c) ==
  IF c.authKey = "" THEN [err |-> "authKey is required", cfg |-> c]
  ELSE LET c1 == [c EXCEPT !.stateDir = IF c.stateDir = ""
                                          THEN DefaultStateDir ELSE @]
           r == ValidateServices(c1, 1, {})
       IN IF r.err # "nil" THEN r
          ELSE [err |-> "nil", cfg |-> TopLevelDefaults(r.cfg)]

\* a caller holds a Config (as Load does after yaml.Unmarshal) ...
InitValidate == InitWith({<<>>})

\* ... and calls c.Validate()
CallValidate(c) ==
  /\ val.state = "none"
  /\ LET r == ConfigValidate(c) IN
       val' = [state |-> "returned", in |-> c, cfg |-> r.cfg, err |-> r.err]
  /\ UNCHANGED <<services, mu, objs, pc, local, phase, cfgServices, mainIdx,
                 ctxDone, stopClosed, probers, req, got, handler, configFile,
                 lookup, lastOk, underLock, probe, saver>>

StepValidate == \E c \in FileConfigs : CallValidate(c)

NextValidate ==
  \/ StepValidate

SpecValidate == InitValidate /\ [][NextValidate]_vars

\* --------------------------------------------- the administrative handlers

\* A request to add a service: its method, whether its body decodes as JSON,
\* the service it spells, and whether its two duration strings parse
ApiSpecs ==
  { mkCfg("b", "http://ok", FALSE, 0),
    [mkCfg("b", "http://ok", FALSE, 2) EXCEPT !.hcPath = "/health"],
    mkCfg("b", "http://ok", TRUE, 0),
    [mkCfg("b", "http://ok", TRUE, 2) EXCEPT !.hcPath = ""] }

AddRequests ==
  { [method |-> "GET", decodes |-> TRUE, spec |-> c, durations |-> TRUE] :
      c \in { mkCfg("a", "http://ok", FALSE, 0) } }
  \cup { [method |-> "POST", decodes |-> d, spec |-> c, durations |-> p] :
           d \in BOOLEAN, p \in BOOLEAN, c \in ApiSpecs }

\* part_003 160-192: svcCfg; the health-check block is copied only when the
\* request enables it
ToServiceConfig(spec) ==
  IF spec.hc THEN spec ELSE [spec EXCEPT !.thr = 0, !.hcPath = ""]

\* r.URL.Path of a request to remove a service, as its segments and slashes
PathServices == <<"/", "api", "/", "services">>

DeletePaths ==
  { PathServices, PathServices \o <<"/">>, PathServices \o <<"/", "a">>,
    PathServices \o <<"/", "b">>, PathServices \o <<"/", "a", "/", "x">> }

DeleteRequests ==
  { [method |-> "GET", path |-> PathServices \o <<"/", "a">>] }
  \cup { [method |-> "DELETE", path |-> p] : p \in DeletePaths }

\* strings.Split(path, "/")
RECURSIVE Split(_)
Split(path) ==
  IF path = <<>> THEN <<"">>
  ELSE IF Head(path) = "/" THEN <<"">> \o Split(Tail(path))
  ELSE <<Head(path)>> \o Tail(Split(Tail(path)))

\* (mutant of AddStatus: 201 whatever the manager returned)
AddStatusAlwaysCreated(err) == 201

\* part_003 195-208: the answer to a request whose body was well-formed
AddStatus(err) == IF err = "nil" THEN 201 ELSE 500

\* part_003 231-251
DeleteStatus(err) == IF err = "nil" THEN 200 ELSE 500

\* part_003 201: h.config.Services = append(h.config.Services, svcCfg)
ConfigAfterAdd(list, cfg) == Append(list, cfg)

\* part_003 237-243: newServices, the services of another name
RECURSIVE ConfigAfterDelete(_, _)
ConfigAfterDelete(list, name) ==
  IF list = <<>> THEN <<>>
  ELSE IF Head(list).name # name
    THEN <<Head(list)>> \o ConfigAfterDelete(Tail(list), name)
    ELSE ConfigAfterDelete(Tail(list), name)

\* config.Save(h.config, h.configPath): the file is rewritten, or the write
\* fails and the file stays
Save(list, written) == IF written THEN ServiceNames(list) ELSE configFile

\* the request as the handler found the world
Arrived(kind) ==
  [NoHandler EXCEPT !.kind = kind,
                    !.before = [services |-> services, config |-> cfgServices]]

\* http.Error(w, .., status); return
Answer(t, kind, status) ==
  /\ handler' = [handler EXCEPT ![t] = [Arrived(kind) EXCEPT !.state = "done",
                                                             !.status = status]]
  /\ UNCHANGED <<services, mu, objs, pc, local, probers>>

\* APIHandler.AddService up to and into h.manager.AddService(svcCfg)
ApiAddService(t, r) ==
  /\ ApiUp
  /\ handler[t].state \in {"none", "done"}
  /\ pc[t] = "idle"
  /\ IF r.method # "POST" THEN Answer(t, "add", 405)
     ELSE IF ~r.decodes THEN Answer(t, "add", 400)
     ELSE IF r.spec.hc /\ ~r.durations THEN Answer(t, "add", 400)
     ELSE /\ AddBegin(t, ToServiceConfig(r.spec))
          /\ handler' = [handler EXCEPT ![t] =
               [Arrived("add") EXCEPT !.state = "called",
                                      !.cfg = ToServiceConfig(r.spec),
                                      !.name = r.spec.name]]
  /\ UNCHANGED <<phase, cfgServices, mainIdx, ctxDone, stopClosed,
                 req, got, val, configFile, lookup, lastOk, underLock, probe, saver>>

\* h.manager.AddService has returned: the 500, or append, Save and the 201
ApiAddReturn(t, written) ==
  /\ handler[t].state = "called" /\ handler[t].kind = "add"
  /\ pc[t] = "idle"
  /\ IF local[t].ret # "nil"
       THEN UNCHANGED <<cfgServices, configFile>>
       ELSE /\ cfgServices' = ConfigAfterAdd(cfgServices, handler[t].cfg)
            /\ configFile' = Save(cfgServices', written)
  /\ handler' = [handler EXCEPT ![t].state = "done",
                                ![t].status = AddStatus(local[t].ret)]
  /\ UNCHANGED <<services, mu, objs, pc, local, phase, mainIdx, ctxDone,
                 stopClosed, probers, req, got, val, lookup, lastOk, underLock, probe, saver>>

\* APIHandler.DeleteService up to and into h.manager.RemoveService(name)
ApiDeleteService(t, r) ==
  /\ ApiUp
  /\ handler[t].state \in {"none", "done"}
  /\ pc[t] = "idle"
  /\ IF r.method # "DELETE" THEN Answer(t, "remove", 405)
     ELSE IF Len(Split(r.path)) < 4 THEN Answer(t, "remove", 400)
     ELSE /\ RemoveBegin(t, Split(r.path)[4])
          /\ handler' = [handler EXCEPT ![t] =
               [Arrived("remove") EXCEPT !.state = "called",
                                         !.name = Split(r.path)[4]]]
  /\ UNCHANGED <<phase, cfgServices, mainIdx, ctxDone, stopClosed,
                 req, got, val, configFile, lookup, lastOk, underLock, probe, saver>>

\* h.manager.RemoveService has returned: the 500, or the new list, Save and
\* the 200
ApiDeleteReturn(t, written) ==
  /\ handler[t].state = "called" /\ handler[t].kind = "remove"
  /\ pc[t] = "idle"
  /\ IF local[t].ret # "nil"
       THEN UNCHANGED <<cfgServices, configFile>>
       ELSE /\ cfgServices' = ConfigAfterDelete(cfgServices, handler[t].name)
            /\ configFile' = Save(cfgServices', written)
  /\ handler' = [handler EXCEPT ![t].state = "done",
                                ![t].status = DeleteStatus(local[t].ret)]
  /\ UNCHANGED <<services, mu, objs, pc, local, phase, mainIdx, ctxDone,
                 stopClosed, probers, req, got, val, lookup, lastOk, underLock, probe, saver>>

StepApiAddService == \E t \in ApiTasks, r \in AddRequests : ApiAddService(t, r)

StepApiAddReturn == \E t \in ApiTasks, written \in BOOLEAN : ApiAddReturn(t, written)

StepApiDeleteService == \E t \in ApiTasks, r \in DeleteRequests : ApiDeleteService(t, r)

StepApiDeleteReturn == \E t \in ApiTasks, written \in BOOLEAN : ApiDeleteReturn(t, written)

\* For the administrative handlers: one unprobed service "a"
ApiConfigFiles == { << mkCfg("a", "http://ok", FALSE, 0) >> }

InitApi == InitWith(ApiConfigFiles)

\* Start-up, then administrative requests one after the other
NextApi ==
  \/ MainAdd
  \/ CheckerStart
  \/ UIStart
  \/ StepApiAddService
  \/ StepApiAddReturn
  \/ StepApiDeleteService
  \/ StepApiDeleteReturn
  \/ StepAddStart(Tasks)
  \/ StepAddListenTLS(Tasks)
  \/ StepAddListen(Tasks)
  \/ StepAddParse(Tasks)
  \/ StepAddRegister(Tasks)
  \/ StepRemoveClose(Tasks)
  \/ StepRemoveDelete(Tasks)

SpecApi == InitApi /\ [][NextApi]_vars

\* ------------------------------------- concurrent callers of the manager

\* The tasks that mutate the registry at the same time, each on a name of
\* its own
ConcTasks == ApiTasks \cup PeerTasks

NameOf(t) == IF t \in ApiTasks THEN "a" ELSE "b"

\* m.mu.RLock(): granted while no writer holds m.mu
RLock == mu = "free"

\* svc, exists := m.services[name]
GetService(sv, name) == sv[name]

\* a caller calls GetService(n), keeping nothing of what it got before ...
LookCall(n) ==
  /\ lookup.state \in {"none", "returned"}
  /\ lookup' = [state |-> "called", name |-> n, result |-> NoObj]
  /\ got' = NoMap
  /\ UNCHANGED <<services, mu, objs, pc, local, probers, req, val, handler,
                 configFile, lastOk, underLock, probe, saver>>

\* ... and gets its answer: RLock, the read, RUnlock
LookReturn ==
  /\ lookup.state = "called"
  /\ RLock
  /\ lookup' = [lookup EXCEPT !.state = "returned",
                              !.result = GetService(services, lookup.name)]
  /\ UNCHANGED <<services, mu, objs, pc, local, probers, req, got, val, handler,
                 configFile, lastOk, underLock, probe, saver>>

StepLookCall == \E n \in Names : Running /\ LookCall(n) /\ UNCHANGED mainVars

StepLookReturn == Running /\ LookReturn /\ UNCHANGED mainVars

\* the same caller calls GetAllServices
StepConcGetAll ==
  /\ Running /\ CallerGetAll
  /\ lookup.state # "called"
  /\ lookup' = NoLookup
  /\ UNCHANGED <<mainVars, val, handler, configFile, lastOk, underLock, probe, saver>>

StepConcAdd ==
  \E t \in ConcTasks :
    ApiAdd(t, mkCfg(NameOf(t), "http://ok", FALSE, 0)) /\ UNCHANGED <<mainVars, clientVars>>

StepConcRemove ==
  \E t \in ConcTasks : ApiRemove(t, NameOf(t)) /\ UNCHANGED <<mainVars, clientVars>>

\* the last step of an AddService / RemoveService that returns nil
StepConcRegister ==
  \E t \in Tasks :
    /\ Running /\ AddRegister(t)
    /\ lastOk' = [lastOk EXCEPT ![local[t].name] = "add"]
    /\ UNCHANGED <<mainVars, req, got, val, handler, configFile, lookup, underLock, probe, saver>>

StepConcDelete ==
  \E t \in Tasks :
    /\ Running /\ RemoveDelete(t)
    /\ lastOk' = [lastOk EXCEPT ![local[t].name] = "remove"]
    /\ UNCHANGED <<mainVars, req, got, val, handler, configFile, lookup, underLock, probe, saver>>

InitConc == InitWith({<<>>})

\* Two tasks add and remove their services while a third looks services up
NextConc ==
  \/ CheckerStart
  \/ UIStart
  \/ StepConcAdd
  \/ StepConcRemove
  \/ StepAddStart(Tasks)
  \/ StepAddListenTLS(Tasks)
  \/ StepAddListen(Tasks)
  \/ StepAddParse(Tasks)
  \/ StepConcRegister
  \/ StepRemoveClose(Tasks)
  \/ StepConcDelete
  \/ StepLookCall
  \/ StepLookReturn
  \/ StepConcGetAll

SpecConc == InitConc /\ [][NextConc]_vars

\* ------------------------------------ probers and requests beside the lock

\* what has run while a manager call held m.mu
Noted(what) == IF mu # "free" THEN underLock \cup {what} ELSE underLock

StepLockProbe ==
  \E o \in ObjIds, out \in ProbeOutcomes :
    /\ Running /\ Probe(o, out)
    /\ underLock' = Noted("probe")
    /\ UNCHANGED <<mainVars, req, got, val, handler, configFile, lookup, lastOk, probe, saver>>

StepLockHandleBegin ==
  \E o \in ObjIds :
    /\ Running /\ HandleBegin(o, Slash)
    /\ underLock' = Noted("request")
    /\ UNCHANGED <<mainVars, val, handler, configFile, lookup, lastOk, probe, saver>>

StepLockHandleForward ==
  \E out \in ProxyOutcomes :
    /\ Running /\ HandleForward(out)
    /\ underLock' = Noted("request")
    /\ UNCHANGED <<mainVars, val, handler, configFile, lookup, lastOk, probe, saver>>

\* For the lock: one probed service "a" with threshold 1
LockConfigFiles == { << mkCfg("a", "http://ok", TRUE, 1) >> }

InitLock == InitWith(LockConfigFiles)

\* Start-up, then probes and requests beside administrative adds and removes
NextLock ==
  \/ MainAdd
  \/ CheckerStart
  \/ UIStart
  \/ StepPlainAdd
  \/ StepApiRemove
  \/ StepAddStart(Tasks)
  \/ StepAddListenTLS(Tasks)
  \/ StepAddListen(Tasks)
  \/ StepAddParse(Tasks)
  \/ StepAddRegister(Tasks)
  \/ StepRemoveClose(Tasks)
  \/ StepRemoveDelete(Tasks)
  \/ StepLockProbe
  \/ StepLockHandleBegin
  \/ StepLockHandleForward

SpecLock == InitLock /\ [][NextLock]_vars

\* ------------------------------------------------- Checker.performCheck

\* What c.client.Do(req) can bring back: http.NewRequestWithContext fails and
\* nothing is sent, the connection fails, the deadline of checkCtx (or of
\* the client) passes, or a response arrives with its status
CheckOutcomes ==
  { [err |-> e, status |-> 0] : e \in {"build", "network", "timeout"} }
    \cup { [err |-> "none", status |-> c] :
             c \in {100, 199, 200, 204, 301, 399, 400, 404, 500, 599} }

\* how the backend behaves during one probe: it answers (or refuses), or it
\* accepts the connection and never answers
BackendModes == {"answers", "hung"}

\* what a probe of such a backend can end with; against a backend that never
\* answers only the deadline is left
OutcomesOf(backend) ==
  IF backend = "hung" THEN { out \in CheckOutcomes : out.err = "timeout" }
  ELSE CheckOutcomes

\* (mutant of ProbeReturns: a probe of a hung backend waits for the answer)
ProbeWaitsForAnswer(backend, out) == backend # "hung" /\ out \in OutcomesOf(backend)

\* context.WithTimeout(context.Background(), cfg.Timeout) and the client's
\* own Timeout: client.Do returns with this outcome
ProbeReturns(backend, out) == out \in OutcomesOf(backend)

\* the Service now registered under the name of Service o
RegisteredAs(o) ==
  IF objs[o].cfg.name \in Names THEN services[objs[o].cfg.name] ELSE NoObj

\* case <-ticker.C: the prober of o enters performCheck
ProbeStart(o, backend) ==
  /\ probers[o].state = "running"
  /\ probers[o].failureCount < MaxFail
  /\ probe.state # "inflight"
  /\ probe' = [NoProbe EXCEPT !.state = "inflight", !.svc = o, !.backend = backend]
  /\ UNCHANGED <<services, mu, objs, pc, local, probers, req, got, val, handler,
                 configFile, lookup, lastOk, underLock, saver>>

\* performCheck returns and the prober counts the result
ProbeFinish(out) ==
  /\ probe.state = "inflight"
  /\ ProbeReturns(probe.backend, out)
  /\ Probe(probe.svc, [err |-> out.err, status |-> out.status])
  /\ probe' = [probe EXCEPT !.state = "returned", !.out = out,
                            !.result = performCheck(out),
                            !.seen = RegisteredAs(probe.svc)]
  /\ UNCHANGED <<req, got, val, handler, configFile, lookup, lastOk, underLock, saver>>

\* the prober is at its select, not inside performCheck
AtSelect(o) == ~(probe.state = "inflight" /\ probe.svc = o)

StepProbeStart ==
  \E o \in ObjIds, backend \in BackendModes :
    Running /\ ProbeStart(o, backend) /\ UNCHANGED mainVars

StepProbeFinish ==
  \E out \in CheckOutcomes : Running /\ ProbeFinish(out) /\ UNCHANGED mainVars

StepSelectExit ==
  \E o \in ObjIds :
    Running /\ AtSelect(o) /\ ProberExit(o) /\ UNCHANGED <<mainVars, clientVars>>

\* For the probe: a probed service "a" with threshold 2, alone or beside a
\* probed service "b" with threshold 1
ProbeConfigFiles ==
  { << mkCfg("a", "http://ok", TRUE, 2) >>,
    << mkCfg("a", "http://ok", TRUE, 2), mkCfg("b", "http://ok", TRUE, 1) >> }

InitProbe == InitWith(ProbeConfigFiles)

\* Start-up, the probes of one prober, the stop signals
NextProbe ==
  \/ MainAdd
  \/ CheckerStart
  \/ UIStart
  \/ MainCancel
  \/ CheckerStop
  \/ StepAddStart({"main"})
  \/ StepAddListenTLS({"main"})
  \/ StepAddListen({"main"})
  \/ StepAddParse({"main"})
  \/ StepAddRegister({"main"})
  \/ StepProbeStart
  \/ StepProbeFinish
  \/ StepSelectExit

SpecProbe == InitProbe /\ [][NextProbe]_vars

\* The same with the clock: the deadline of a probe under way passes
\* (context.WithTimeout), and a prober that is again and again at its select
\* with a stop signal ready takes that case: select chooses among the ready
\* cases at random, so the tick cannot win for ever.
SpecProbeFair ==
  /\ SpecProbe
  /\ WF_vars(StepProbeFinish)
  /\ SF_vars(StepSelectExit)

\* ------------------------------------- a name removed and added again

\* what the administrative adds carry here: "a" as in the file, health check
\* enabled, and a plain "b"
ReplaceCfgs == { mkCfg("a", "http://ok", TRUE, 1), mkCfg("b", "http://ok", FALSE, 0) }

StepReAdd ==
  \E t \in ApiTasks, cfg \in ReplaceCfgs :
    ApiAdd(t, cfg) /\ UNCHANGED <<mainVars, clientVars>>

\* a prober counts a probe; recorded: whose, the result, and which Service
\* was registered under its name
StepSeenProbe ==
  \E o \in ObjIds, out \in ProbeOutcomes :
    /\ Running /\ Probe(o, out)
    /\ probe' = [NoProbe EXCEPT !.state = "returned", !.svc = o,
                                !.result = performCheck(out),
                                !.seen = RegisteredAs(o)]
    /\ UNCHANGED <<mainVars, req, got, val, handler, configFile, lookup, lastOk,
                   underLock, saver>>

StepSlashRequest ==
  \E o \in ObjIds :
    Running /\ HandleBegin(o, Slash) /\ UNCHANGED mainVars /\ UNCHANGED adminVars

InitReplace == InitWith(LockConfigFiles)

\* Start-up with one probed service "a", then removes and adds of "a" and
\* "b" beside the probes and the requests
NextReplace ==
  \/ MainAdd
  \/ CheckerStart
  \/ UIStart
  \/ StepReAdd
  \/ StepApiRemove
  \/ StepAddStart(Tasks)
  \/ StepAddListenTLS(Tasks)
  \/ StepAddListen(Tasks)
  \/ StepAddParse(Tasks)
  \/ StepAddRegister(Tasks)
  \/ StepRemoveClose(Tasks)
  \/ StepRemoveDelete(Tasks)
  \/ StepSeenProbe
  \/ StepSlashRequest
  \/ StepHandleForward

SpecReplace == InitReplace /\ [][NextReplace]_vars

\* --------------------------------------------- two adds of the same name

\* a task's first AddService, of any name
StepFirstAdd ==
  \E t \in ConcTasks, n \in Names :
    /\ local[t].op = "none"
    /\ ApiAdd(t, mkCfg(n, "http://ok", FALSE, 0))
    /\ UNCHANGED <<mainVars, clientVars>>

InitSame == InitWith(ApiConfigFiles)

\* Start-up with "a" registered, then each of two tasks calls AddService once
NextSame ==
  \/ MainAdd
  \/ CheckerStart
  \/ UIStart
  \/ StepFirstAdd
  \/ StepAddStart(Tasks)
  \/ StepAddListenTLS(Tasks)
  \/ StepAddListen(Tasks)
  \/ StepAddParse(Tasks)
  \/ StepAddRegister(Tasks)

SpecSame == InitSame /\ [][NextSame]_vars

\* ------------------------------------------ removals whose release fails

StepRemoveRelease ==
  \E t \in Tasks, errs \in SUBSET ReleaseCalls :
    Running /\ RemoveRelease(t, errs) /\ UNCHANGED <<mainVars, clientVars>>

\* an administrative add by the second handler task
StepPeerAdd ==
  \E t \in PeerTasks, n \in Names :
    ApiAdd(t, mkCfg(n, "http://ok", FALSE, 0)) /\ UNCHANGED <<mainVars, clientVars>>

InitRemove == InitWith(ApiConfigFiles)

\* Start-up with "a" registered, then removes by one task and adds by another
NextRemove ==
  \/ MainAdd
  \/ CheckerStart
  \/ UIStart
  \/ StepPeerAdd
  \/ StepApiRemove
  \/ StepAddStart(Tasks)
  \/ StepAddListenTLS(Tasks)
  \/ StepAddListen(Tasks)
  \/ StepAddParse(Tasks)
  \/ StepAddRegister(Tasks)
  \/ StepRemoveRelease
  \/ StepRemoveDelete(Tasks)

SpecRemove == InitRemove /\ [][NextRemove]_vars

\* ------------------------------- two handlers and the shared service list

\* what the handler of t hands to the manager
SharedCfg(t) == mkCfg(NameOf(t), "http://ok", FALSE, 0)

\* A handler's first (and only) request: into h.manager.AddService or
\* h.manager.RemoveService, for the name of its task
SharedCall(t, kind) ==
  /\ ApiUp
  /\ saver[t].state = "none"
  /\ IF kind = "add" THEN AddBegin(t, SharedCfg(t)) ELSE RemoveBegin(t, NameOf(t))
  /\ saver' = [saver EXCEPT ![t] =
       [NoSaver EXCEPT !.state = "manager", !.kind = kind, !.name = NameOf(t)]]
  /\ UNCHANGED <<phase, cfgServices, mainIdx, ctxDone, stopClosed, req, got, val,
                 handler, configFile, lookup, lastOk, underLock, probe>>

\* the manager has returned: the 500, or the handler reads h.config.Services
\* (the operand of append; the range of the loop)
SharedRead(t) ==
  /\ saver[t].state = "manager"
  /\ pc[t] = "idle"
  /\ saver' = [saver EXCEPT ![t] =
       IF local[t].ret # "nil" THEN [@ EXCEPT !.state = "failed"]
       ELSE [@ EXCEPT !.state = "read", !.read = cfgServices]]
  /\ UNCHANGED <<services, mu, objs, pc, local, probers, mainVars, req, got, val,
                 handler, configFile, lookup, lastOk, underLock, probe>>

\* h.config.Services = append(..) / h.config.Services = newServices: the
\* list built from what was read is stored; no lock is held
SharedAssign(t) ==
  /\ saver[t].state = "read"
  /\ cfgServices' = IF saver[t].kind = "add"
                      THEN ConfigAfterAdd(saver[t].read, SharedCfg(t))
                      ELSE ConfigAfterDelete(saver[t].read, saver[t].name)
  /\ saver' = [saver EXCEPT ![t].state = "assigned"]
  /\ UNCHANGED <<services, mu, objs, pc, local, probers, phase, mainIdx, ctxDone,
                 stopClosed, req, got, val, handler, configFile, lookup, lastOk,
                 underLock, probe>>

\* config.Save: yaml.Marshal(cfg) reads h.config as it is now
SharedMarshal(t) ==
  /\ saver[t].state = "assigned"
  /\ saver' = [saver EXCEPT ![t].state = "marshalled",
                            ![t].data = ServiceNames(cfgServices)]
  /\ UNCHANGED <<services, mu, objs, pc, local, probers, mainVars, req, got, val,
                 handler, configFile, lookup, lastOk, underLock, probe>>

\* config.Save: os.WriteFile(path, data, 0644); the answer 201 / 200
SharedWriteFile(t) ==
  /\ saver[t].state = "marshalled"
  /\ configFile' = saver[t].data
  /\ saver' = [saver EXCEPT ![t].state = "done"]
  /\ UNCHANGED <<services, mu, objs, pc, local, probers, mainVars, req, got, val,
                 handler, lookup, lastOk, underLock, probe>>

StepSharedCall == \E t \in ConcTasks, kind \in {"add", "remove"} : SharedCall(t, kind)

StepSharedRead == \E t \in ConcTasks : SharedRead(t)

StepSharedAssign == \E t \in ConcTasks : SharedAssign(t)

StepSharedMarshal == \E t \in ConcTasks : SharedMarshal(t)

StepSharedWriteFile == \E t \in ConcTasks : SharedWriteFile(t)

InitShared == InitWith(ApiConfigFiles)

\* Start-up with "a" in the file, then one request of each of two handler
\* tasks, for "a" and for "b", each running in its own goroutine; the file
\* can be written
NextShared ==
  \/ MainAdd
  \/ CheckerStart
  \/ UIStart
  \/ StepSharedCall
  \/ StepAddStart(Tasks)
  \/ StepAddListenTLS(Tasks)
  \/ StepAddListen(Tasks)
  \/ StepAddParse(Tasks)
  \/ StepAddRegister(Tasks)
  \/ StepRemoveClose(Tasks)
  \/ StepRemoveDelete(Tasks)
  \/ StepSharedRead
  \/ StepSharedAssign
  \/ StepSharedMarshal
  \/ StepSharedWriteFile

SpecShared == InitShared /\ [][NextShared]_vars

\* ------------------------------------------------------------ the claims

\* Task t enters AddService / RemoveService for name n in this step
CallsAdd(t, n) ==
  /\ pc[t] = "idle"
  /\ local'[t].op = "add" /\ local'[t].name = n
  /\ local'[t] \notin {local[t], Stale(local[t])}

CallsRemove(t, n) ==
  /\ pc[t] = "idle"
  /\ local'[t].op = "remove" /\ local'[t].name = n
  /\ local'[t] \notin {local[t], Stale(local[t])}

Allocated(ob) == { o \in ObjIds : ob[o] # Unallocated }

\* its network identity is started, both listeners exist, its forwarding
\* primitive is set
FullyProvisioned(s) ==
  /\ s.tsnetServer /\ s.ts = "started"
  /\ s.httpsLn = "open" /\ s.httpLn = "open"
  /\ s.reverseProxy

Probed == { o \in ObjIds : probers[o].state # "none" }

\* C1: AddService with a name already in the registry returns the
\* already-exists error and changes nothing: the registry maps every name to
\* the same Service object, whose fields (health flag included) are the same,
\* and no Service, network identity or listener is created for the attempt.
C1_DuplicateAddChangesNothing ==
  [][\A t \in Tasks, n \in Names :
       (CallsAdd(t, n) /\ n \in Registered) =>
          /\ local'[t].ret = "exists"
          /\ pc'[t] = "idle"
          /\ local'[t].svc = NoObj
          /\ services' = services
          /\ \A m \in Registered : objs'[services[m]] = objs[services[m]]
          /\ Allocated(objs') \subseteq Allocated(objs)
          /\ \A o \in ObjIds : Live(objs'[o]) => Live(objs[o])]_vars

\* C1 witness: an AddService has returned the already-exists error while the
\* name is registered
C1_Witness ==
  \E t \in ApiTasks :
    /\ pc[t] = "idle" /\ local[t].op = "add" /\ local[t].ret = "exists"
    /\ local[t].name \in Registered

\* C2: RemoveService on a name that is not registered returns not-found and
\* leaves the registry, every Service object and every prober unchanged; a
\* RemoveService that returns nil leaves its name unregistered, so the next
\* RemoveService of that name returns not-found.
C2_RemoveAbsentNotFound ==
  [][\A t \in Tasks, n \in Names :
       /\ (CallsRemove(t, n) /\ n \notin Registered) =>
             /\ local'[t].ret = "not_found"
             /\ pc'[t] = "idle"
             /\ services' = services
             /\ \A o \in ObjIds : Live(objs[o]) => objs'[o] = objs[o]
             /\ \A o \in RunningProbers : probers'[o] = probers[o]
       /\ (pc[t] = "rm_delete" /\ pc'[t] = "idle" /\ local[t].name = n) =>
             /\ local'[t].ret = "nil"
             /\ n \notin { m \in Names : services'[m] # NoObj }]_vars

\* C2 witness: a second RemoveService of a name, right after the first one
\* succeeded, has returned not-found
C2_Witness ==
  \E t \in ApiTasks :
    /\ pc[t] = "idle" /\ local[t].op = "remove"
    /\ local[t].follows = "remove" /\ local[t].ret = "not_found"

\* C3: a successful AddService of an unregistered name followed directly by
\* RemoveService of that name, with no other change to the registry or to
\* the probers in between, ends with the registered names and the number of
\* running probers as they were before the add, and with no live network
\* identity, listener or serving goroutine for the added service.
C3_AddThenRemoveRestores ==
  \A t \in Tasks :
    (/\ pc[t] = "idle" /\ local[t].op = "remove" /\ local[t].ret = "nil"
     /\ local[t].follows = "add" /\ local[t].clean) =>
       /\ Registered = local[t].snapNames
       /\ local[t].name \notin Registered
       /\ Cardinality(RunningProbers) = local[t].snapProbers
       /\ ~Live(objs[local[t].svc])
       /\ ServingTasks(objs[local[t].svc]) = {}

\* C3 witness: such an add-then-remove has completed while a prober runs and
\* another service is registered
C3_Witness ==
  \E t \in ApiTasks :
    /\ pc[t] = "idle" /\ local[t].op = "remove" /\ local[t].ret = "nil"
    /\ local[t].follows = "add" /\ local[t].clean
    /\ Registered # {} /\ RunningProbers # {}

AddPcs == {"add_start", "add_tls", "add_http", "add_parse", "add_register"}

ProvisioningErrors == {"start_failed", "https_failed", "http_failed", "invalid_url"}

\* C4: when AddService returns a provisioning error (tsnet start, HTTPS
\* listener, HTTP listener, backend URL), the name is not in the registry,
\* the tsnet server and the listeners of the attempt are not live, no
\* serving goroutine was started for it, and the lock is released; and it
\* returns nil only from the registering step.
C4_FailedAddReleasesAll ==
  [][\A t \in Tasks :
       (pc[t] \in AddPcs /\ pc'[t] = "idle") =>
          IF pc[t] = "add_register"
            THEN local'[t].ret = "nil"
            ELSE /\ local'[t].ret \in ProvisioningErrors
                 /\ services' = services
                 /\ local[t].name \notin Registered
                 /\ \A n \in Names : services'[n] # local[t].svc
                 /\ ~Live(objs'[local[t].svc])
                 /\ objs'[local[t].svc].serving = {}
                 /\ mu' = "free"]_vars

\* C4 witness: an AddService has failed at the last provisioning step, the
\* backend URL, after the tsnet server and both listeners were up
C4_Witness ==
  \E t \in ApiTasks :
    /\ pc[t] = "idle" /\ local[t].op = "add" /\ local[t].ret = "invalid_url"
    /\ objs[local[t].svc].ts = "closed"
    /\ objs[local[t].svc].httpsLn = "closed" /\ objs[local[t].svc].httpLn = "closed"

\* C5: whenever the registry can be read (m.mu is not held exclusively),
\* every registered Service is fully provisioned; and an entry appears in the
\* registry only in the last step of an AddService that returns nil.
C5_RegisteredIsProvisioned ==
  /\ [](mu = "free" => \A n \in Registered : FullyProvisioned(objs[services[n]]))
  /\ [][\A n \in Names :
          (services'[n] # services[n] /\ services'[n] # NoObj) =>
             \E t \in Tasks :
               /\ pc[t] = "add_register" /\ pc'[t] = "idle"
               /\ local[t].name = n /\ services'[n] = local[t].svc
               /\ local'[t].ret = "nil"
               /\ FullyProvisioned(objs'[services'[n]])]_vars

\* C5 witness: a service added through the API is registered and readable
C5_Witness ==
  \E t \in ApiTasks :
    /\ mu = "free" /\ local[t].op = "add" /\ local[t].ret = "nil"
    /\ services[local[t].name] = local[t].svc

\* C6: once Checker.Start has run and before shutdown is signalled, every
\* registered service with health checks enabled, its AddService having
\* returned, has a running prober.
C6_EveryProbedServiceHasProber ==
  (phase \in {"checker", "serving"} /\ mu = "free") =>
     \A n \in Registered :
        objs[services[n]].cfg.hc => probers[services[n]].state = "running"

\* C7: after RemoveService(n) has returned nil, the prober of the removed
\* Service performs no further probe; and the step that completes a removal
\* stops no prober of another Service.
C7_RemoveStopsItsProber ==
  [][\A t \in Tasks :
       /\ (pc[t] = "idle" /\ local[t].op = "remove" /\ local[t].ret = "nil"
             /\ probers[local[t].svc].state = "running"
             /\ probers'[local[t].svc].state = "running") =>
             probers'[local[t].svc] = probers[local[t].svc]
       /\ (pc[t] = "rm_delete" /\ pc'[t] = "idle") =>
             \A o \in RunningProbers \ {local[t].svc} : probers'[o] = probers[o]]_vars

\* C8: for a probed service with threshold T >= 1, after T-1 failed probes
\* in a row (counted from the service's creation or from the last successful
\* probe, where the flag is true and the counter 0) the flag is still true,
\* and after the T-th it is false.
C8_ThresholdFlipsFlag ==
  \A o \in Probed :
    LET T == objs[o].cfg.thr
    IN T >= 1 =>
         /\ probers[o].streak = T - 1 => objs[o].healthy
         /\ probers[o].streak = T => ~objs[o].healthy

\* C8 witness: a service with threshold 2 has failed two probes in a row and
\* is unhealthy
C8_Witness ==
  \E o \in Probed :
    objs[o].cfg.thr = 2 /\ probers[o].streak = 2 /\ ~objs[o].healthy

\* C9: whatever the threshold a probed service runs with, the flag is still
\* true after one failed probe that follows a successful probe or the
\* service's creation.
C9_SingleFailureNeverFlips ==
  \A o \in Probed : probers[o].streak = 1 => objs[o].healthy

\* C10: after a successful probe the failure counter is 0 and the flag is
\* true, also when the flag was false before that probe; the counter always
\* equals the number of failed probes since the last success, so earlier
\* failures never count towards the threshold.
C10_SuccessResets ==
  \A o \in Probed :
    /\ probers[o].streak = 0 => (probers[o].failureCount = 0 /\ objs[o].healthy)
    /\ probers[o].recovered => (probers[o].failureCount = 0 /\ objs[o].healthy)
    /\ probers[o].failureCount = probers[o].streak
    /\ (objs[o].cfg.thr >= 1 /\ probers[o].streak < objs[o].cfg.thr) => objs[o].healthy

\* C10 witness: a probe has succeeded on a service whose flag was false; the
\* flag is true again
C10_Witness ==
  \E o \in Probed :
    probers[o].recovered /\ objs[o].healthy /\ probers[o].failureCount = 0

\* A request enters the handler of Service o in this step
Arrives(o) == req.state # "forwarding" /\ req' # req /\ req'.svc = o

\* C11: a request that arrives while the service's health flag is false is
\* answered 503 by the gate, proxy.ServeHTTP is not invoked for it and its
\* path is left as it came, whatever the path and the configured prefixes.
C11_UnhealthyAnswers503 ==
  [][\A o \in ObjIds :
       (Arrives(o) /\ ~objs[o].healthy) =>
          /\ req'.state = "done" /\ req'.status = 503 /\ req'.origin = "gate"
          /\ req'.calls = 0
          /\ req'.fwdPath = req'.path]_vars

\* C11 witness: an unhealthy service with prefixes configured has answered
\* 503 to a path that has none of them
C11_Witness ==
  /\ req.state = "done" /\ req.status = 503 /\ req.calls = 0
  /\ ~objs[req.svc].healthy
  /\ objs[req.svc].cfg.paths = <<PathApi>> /\ req.path = PathOther

\* C12: for a request that arrives while the flag is true: with prefixes
\* configured and none of them a prefix of the path, the answer is 404 and
\* proxy.ServeHTTP is not invoked; with no prefixes configured the request is
\* forwarded with its path as it came, strip-prefix or not.
C12_HealthyPathMatching ==
  [][\A o \in ObjIds :
       (Arrives(o) /\ objs[o].healthy) =>
          LET ps == objs[o].cfg.paths
          IN /\ (ps # <<>> /\ \A k \in 1..Len(ps) : ~HasPrefix(req'.path, ps[k])) =>
                   (req'.state = "done" /\ req'.status = 404 /\ req'.calls = 0)
             /\ ps = <<>> =>
                   (req'.state = "forwarding" /\ req'.calls = 1
                      /\ req'.fwdPath = req'.path)]_vars

\* C12 witness: a healthy service with strip-prefix and the prefix /api has
\* answered 404 to /o
C12_Witness ==
  /\ req.state = "done" /\ req.status = 404 /\ req.sawHealthy /\ req.calls = 0
  /\ objs[req.svc].cfg.paths = <<PathApi>> /\ objs[req.svc].cfg.strip
  /\ req.path = PathOther

\* C13: for a request that arrives while the flag is true, on a service with
\* strip-prefix and a prefix that matches: with p the first matching prefix
\* in declaration order, the forwarded path is the request path with p cut
\* off its front, or "/" when that leaves nothing.
C13_StripsFirstMatch ==
  [][\A o \in ObjIds :
       LET ps == objs[o].cfg.paths
           hits == { k \in 1..Len(ps) : HasPrefix(req'.path, ps[k]) }
       IN (Arrives(o) /\ objs[o].healthy /\ objs[o].cfg.strip /\ hits # {}) =>
            LET first == CHOOSE k \in hits : \A j \in hits : k <= j
            IN /\ req'.state = "forwarding" /\ req'.calls = 1
               /\ IF req'.path = ps[first]
                    THEN req'.fwdPath = Slash
                    ELSE ps[first] \o req'.fwdPath = req'.path]_vars

\* C13 witness: with the prefixes /ap, /api and strip-prefix, the request /api
\* has been forwarded with the path "i"
C13_Witness ==
  /\ req.state = "done" /\ req.calls = 1 /\ req.sawHealthy
  /\ objs[req.svc].cfg.paths = <<PathAp, PathApi>> /\ objs[req.svc].cfg.strip
  /\ req.path = PathApi /\ req.fwdPath = <<"i">>

\* C14: a forwarded request whose forward met a transport-level failure is
\* answered 502; a 503 that is not the backend's own response comes from the
\* health gate only, so a request that found the flag true and the backend
\* down is answered 502, not 503.
C14_TransportFailureIs502 ==
  req.state = "done" =>
    /\ (req.calls = 1 /\ req.out.err) => req.status = 502
    /\ (req.status = 503 /\ req.origin # "backend") =>
          (req.origin = "gate" /\ ~req.sawHealthy /\ req.calls = 0)

\* C14 witness: a service still flagged healthy has answered 502 for a
\* forward that failed
C14_Witness ==
  /\ req.state = "done" /\ req.status = 502 /\ req.out.err /\ req.sawHealthy
  /\ objs[req.svc].healthy

\* C15: a step of request handling, whatever the answer, changes neither the
\* registry nor any health flag nor any prober (its failure counter); and a
\* step that changes the flag of an existing Service is a probe of its prober.
C15_HandlingChangesNoState ==
  [][/\ req' # req =>
          /\ services' = services
          /\ probers' = probers
          /\ \A o \in ObjIds : objs'[o].healthy = objs[o].healthy
      /\ \A o \in ObjIds :
           (objs[o] # Unallocated /\ objs'[o] # Unallocated
              /\ objs'[o].healthy # objs[o].healthy) =>
             (probers[o].state = "running" /\ probers'[o] # probers[o])]_vars

\* C15 witness: a request has been answered 502 while the prober of its
\* service runs with failure counter 0 and the flag true
C15_Witness ==
  /\ req.state = "done" /\ req.status = 502
  /\ probers[req.svc].state = "running" /\ probers[req.svc].failureCount = 0
  /\ objs[req.svc].healthy

\* C16: when Shutdown returns, every service that was registered when it was
\* called (the registry cannot change while Shutdown holds the lock) has its
\* tsnet server and listeners closed, by exactly one Close, also those whose
\* deleteDevice failed, and the registry is empty; and no tsnet server is
\* ever closed twice, whatever RemoveService calls run before, between or
\* after.
C16_ShutdownReleasesEachOnce ==
  /\ [](\A o \in ObjIds : objs[o].closes <= 1)
  /\ [][\A t \in Tasks :
          (pc[t] = "sd_loop" /\ pc'[t] = "idle") =>
             /\ \A n \in Names : services'[n] = NoObj
             /\ mu' = "free"
             /\ \A n \in Registered :
                   /\ ~Live(objs[services[n]])
                   /\ objs[services[n]].closes = 1
                   /\ ServingTasks(objs[services[n]]) = {}]_vars

\* C16 witness: Shutdown has returned after closing a service whose
\* deleteDevice failed, and a RemoveService of the other name had succeeded
\* before it
C16_Witness ==
  /\ pc["main"] = "idle" /\ local["main"].op = "shutdown" /\ local["main"].ret = "nil"
  /\ local["main"].failed # {} /\ Registered = {}
  /\ \E t \in ApiTasks :
       /\ local[t].op = "remove" /\ local[t].ret = "nil"
       /\ local[t].name \notin local["main"].failed

\* C17: a write of the caller into the map GetAllServices returned (an insert
\* or a delete) leaves the registry as it is, so GetService and a later
\* GetAllServices report the same names; and no step of the manager changes
\* the content of a map returned earlier.
C17_ListIsACopy ==
  [][/\ (got'.tick # got.tick /\ got'.last \in {"insert", "delete"}) =>
          services' = services
     /\ (got' = got /\ got.ref # "none") => Held' = Held]_vars

\* C17 witness: the caller has deleted from the map it holds a name that is
\* still registered, and the map has kept a name that was removed since
C17_Witness ==
  /\ got.ref # "none" /\ got.last = "delete"
  /\ \E n \in Names : Held[n] = NoObj /\ services[n] # NoObj
  /\ \E n \in Names : Held[n] # NoObj /\ services[n] = NoObj

\* C18: an AddService that was given an empty name or a backend URL that
\* does not parse has returned an error, and the tsnet server of the attempt
\* was never started and no listener of it was ever opened.
C18_BadSpecTouchesNothing ==
  \A t \in Tasks :
    (/\ pc[t] = "idle" /\ local[t].op = "add" /\ local[t].svc # NoObj
     /\ \/ local[t].name = ""
        \/ ~UrlParses(objs[local[t].svc].cfg.backend)) =>
       /\ local[t].ret # "nil"
       /\ objs[local[t].svc].ts \in {"none", "failed"}
       /\ objs[local[t].svc].httpsLn = "none"
       /\ objs[local[t].svc].httpLn = "none"

\* The characters of each name
NameChars ==
  [n \in AnyNames \cup {NoName} |->
     CASE n = "a" -> <<"a">>
       [] n = "b" -> <<"b">>
       [] n = "" -> <<>>
       [] n = "A_b" -> <<"A", "_", "b">>
       [] n = NoName -> <<"-">>]

\* the characters of [a-z0-9-]
PatternChars ==
  { "a", "b", "c", "d", "e", "f", "g", "h", "i", "j", "k", "l", "m", "n", "o",
    "p", "q", "r", "s", "t", "u", "v", "w", "x", "y", "z",
    "0", "1", "2", "3", "4", "5", "6", "7", "8", "9", "-" }

\* n matches [a-z0-9-]+
MatchesNamePattern(n) ==
  /\ Len(NameChars[n]) >= 1
  /\ \A i \in 1..Len(NameChars[n]) : NameChars[n][i] \in PatternChars

\* C19: every name in the registry is non-empty and matches [a-z0-9-]+.
C19_RegisteredNamesWellFormed ==
  \A n \in Registered : MatchesNamePattern(n)

\* C20: the backend URL of every registered service parses and starts with
\* http:// or https://.
C20_RegisteredBackendsWellFormed ==
  \A n \in Registered :
    /\ UrlParses(objs[services[n]].cfg.backend)
    /\ HasHttpPrefix(objs[services[n]].cfg.backend)

\* ---- C22
\* the defects Validate is said to reject
Defective(c) ==
  \/ c.authKey = ""
  \/ \E i \in 1..Len(c.services) :
       \/ c.services[i].name = ""
       \/ c.services[i].backend = ""
       \/ c.services[i].backend \notin {"http://ok", "https://ok"}
       \/ c.services[i].hc /\ c.services[i].hcPath = ""
  \/ \E i, j \in 1..Len(c.services) :
       i < j /\ c.services[i].name = c.services[j].name

\* C22: Config.Validate returns an error exactly for the configs with an
\* empty auth key, a service with an empty name, two services of one name, a
\* backend that is empty or does not start with http:// or https://, or an
\* enabled health check without a path; for every other config it returns nil.
C22_ValidateRejectsExactlyTheDefects ==
  val.state = "returned" => (val.err # "nil" <=> Defective(val.in))

\* a config of two services whose only defect is the missing health path of
\* the second has been rejected
C22_Witness ==
  /\ val.state = "returned"
  /\ val.err # "nil"
  /\ val.in.authKey # ""
  /\ Len(val.in.services) = 2
  /\ val.in.services[1].name # val.in.services[2].name
  /\ \A i \in 1..2 : val.in.services[i].name # ""
                     /\ val.in.services[i].backend = "http://ok"
  /\ val.in.services[2].hc /\ val.in.services[2].hcPath = ""
  /\ ~(val.in.services[1].hc /\ val.in.services[1].hcPath = "")

\* ---- C23
\* the value of an optional field after Validate: the default where the
\* field was unset (zero), the value it had otherwise
Defaulted(before, default) == IF before = 0 THEN default ELSE before

\* C23 as stated: after Validate accepts a config, every service's interval,
\* timeout and threshold and both ports hold their default where they were
\* zero, and their old value otherwise.
C23_EveryUnsetFieldDefaulted ==
  (val.state = "returned" /\ val.err = "nil") =>
    /\ \A i \in 1..Len(val.in.services) :
         LET b == val.in.services[i]
             a == val.cfg.services[i]
         IN /\ a.interval = Defaulted(b.interval, DefaultInterval)
            /\ a.timeout = Defaulted(b.timeout, DefaultTimeout)
            /\ a.thr = Defaulted(b.thr, DefaultThreshold)
    /\ val.cfg.ui.port = Defaulted(val.in.ui.port, DefaultUIPort)
    /\ val.cfg.metrics.port = Defaulted(val.in.metrics.port, DefaultMetricsPort)

\* C23, amended: after Validate accepts a config, the interval, timeout and
\* threshold of every service whose health check is enabled, the port of an
\* enabled management UI and the port of enabled metrics hold their default
\* where they were zero and their old value otherwise; the same fields of a
\* disabled health check, UI or metrics block are left as they were, zero
\* included.
C23_UnsetFieldsOfEnabledBlocksDefaulted ==
  (val.state = "returned" /\ val.err = "nil") =>
    /\ \A i \in 1..Len(val.in.services) :
         LET b == val.in.services[i]
             a == val.cfg.services[i]
         IN IF b.hc
              THEN /\ a.interval = Defaulted(b.interval, DefaultInterval)
                   /\ a.timeout = Defaulted(b.timeout, DefaultTimeout)
                   /\ a.thr = Defaulted(b.thr, DefaultThreshold)
              ELSE /\ a.interval = b.interval
                   /\ a.timeout = b.timeout
                   /\ a.thr = b.thr
    /\ val.cfg.ui.port = IF val.in.ui.enabled
                           THEN Defaulted(val.in.ui.port, DefaultUIPort)
                           ELSE val.in.ui.port
    /\ val.cfg.metrics.port = IF val.in.metrics.enabled
                                THEN Defaulted(val.in.metrics.port, DefaultMetricsPort)
                                ELSE val.in.metrics.port

\* an accepted config: an enabled health check with all three fields unset
\* beside a disabled one with all three unset, and enabled metrics without port
C23_Witness ==
  /\ val.state = "returned" /\ val.err = "nil"
  /\ Len(val.in.services) = 2
  /\ val.in.services[1].hc /\ val.in.services[1].interval = 0
  /\ val.in.services[1].timeout = 0 /\ val.in.services[1].thr = 0
  /\ val.cfg.services[1].thr = DefaultThreshold
  /\ ~val.in.services[2].hc /\ val.in.services[2].interval = 0
  /\ val.in.metrics.enabled /\ val.in.metrics.port = 0
  /\ val.cfg.metrics.port = DefaultMetricsPort

\* ---- C24
\* field f of the Config is as it was, or was unset and holds its default
KeptOrDefaulted(before, after, unset, default) ==
  IF before = unset THEN after \in {unset, default} ELSE after = before

\* C24: Config.Validate returns, and whether it accepts or rejects it leaves
\* names, backends, paths, strip-prefix, TLS settings, health-check switches
\* and paths, the order and number of services, the auth key and the enabled
\* switches as they were; an optional field differs from before only by
\* holding its default where it was unset.
C24_ValidateOnlyFillsDefaults ==
  val.state = "returned" =>
    LET b == val.in
        a == val.cfg
    IN /\ a.authKey = b.authKey
       /\ Len(a.services) = Len(b.services)
       /\ \A i \in 1..Len(b.services) :
            LET sb == b.services[i]
                sa == a.services[i]
            IN /\ sa.name = sb.name /\ sa.backend = sb.backend
               /\ sa.paths = sb.paths /\ sa.strip = sb.strip /\ sa.tls = sb.tls
               /\ sa.hc = sb.hc /\ sa.hcPath = sb.hcPath
               /\ KeptOrDefaulted(sb.interval, sa.interval, 0, DefaultInterval)
               /\ KeptOrDefaulted(sb.timeout, sa.timeout, 0, DefaultTimeout)
               /\ KeptOrDefaulted(sb.thr, sa.thr, 0, DefaultThreshold)
       /\ KeptOrDefaulted(b.stateDir, a.stateDir, "", DefaultStateDir)
       /\ a.ui.enabled = b.ui.enabled /\ a.metrics.enabled = b.metrics.enabled
       /\ KeptOrDefaulted(b.ui.hostname, a.ui.hostname, "", DefaultUIHostname)
       /\ KeptOrDefaulted(b.ui.port, a.ui.port, 0, DefaultUIPort)
       /\ KeptOrDefaulted(b.metrics.port, a.metrics.port, 0, DefaultMetricsPort)

\* Validate rejected a config at its second service after it had written the
\* defaults of the first, whose interval was set and is kept
C24_Witness ==
  /\ val.state = "returned" /\ val.err # "nil"
  /\ Len(val.in.services) = 2
  /\ val.in.services[1].hc
  /\ val.in.services[1].interval # 0
  /\ val.cfg.services[1].interval = val.in.services[1].interval
  /\ val.in.services[1].timeout = 0
  /\ val.cfg.services[1].timeout = DefaultTimeout
  /\ val.cfg.stateDir = DefaultStateDir

\* ---- C21
\* C21: a service registered through the administrative add has been
\* validated and default-filled as Config.Validate does for a loaded config:
\* its name and backend are well-formed, an enabled health check has a path,
\* and a threshold left unset has become 3.
C21_ApiAddValidatesLikeLoad ==
  \A t \in ApiTasks :
    (handler[t].state = "done" /\ handler[t].kind = "add" /\ handler[t].status = 201) =>
      /\ ValidService(handler[t].cfg)
      /\ handler[t].cfg = FillDefaults(handler[t].cfg)
      /\ \A n \in Registered :
           LET c == objs[services[n]].cfg
           IN ValidService(c) /\ c = FillDefaults(c)

\* ---- C25
\* C25: when the administrative add has answered, the answer is 201 and the
\* service, absent before, is registered, or the answer is a 4xx/5xx and the
\* registry and h.config.Services are what they were when the request came.
C25_AddAnswers201IffRegistered ==
  \A t \in ApiTasks :
    (handler[t].state = "done" /\ handler[t].kind = "add") =>
      IF handler[t].status = 201
        THEN /\ services[handler[t].name] # NoObj
             /\ handler[t].before.services[handler[t].name] = NoObj
             /\ objs[services[handler[t].name]].cfg = handler[t].cfg
        ELSE /\ handler[t].status \in 400..599
             /\ services = handler[t].before.services
             /\ cfgServices = handler[t].before.config

\* a 201 whose Save failed: the service is registered and in
\* h.config.Services, the file does not have it
C25_Witness ==
  \E t \in ApiTasks :
    /\ handler[t].state = "done" /\ handler[t].kind = "add"
    /\ handler[t].status = 201
    /\ services[handler[t].name] # NoObj
    /\ \E i \in 1..Len(cfgServices) : cfgServices[i].name = handler[t].name
    /\ \A i \in 1..Len(configFile) : configFile[i] # handler[t].name

\* ---- C26
\* C26: when the administrative remove has answered, the answer is 200 and
\* the named service, registered before, is gone; or it is 404 and the name
\* was not registered; or it is another 4xx/5xx; and after every answer but
\* 200 the registry and h.config.Services are what they were.
C26_RemoveAnswers200Or404Or500 ==
  \A t \in ApiTasks :
    (handler[t].state = "done" /\ handler[t].kind = "remove") =>
      /\ handler[t].status = 200 =>
           /\ handler[t].before.services[handler[t].name] # NoObj
           /\ services[handler[t].name] = NoObj
      /\ handler[t].status # 200 =>
           /\ handler[t].status \in 400..599
           /\ services = handler[t].before.services
           /\ cfgServices = handler[t].before.config
      /\ (handler[t].name # NoName
            /\ handler[t].before.services[handler[t].name] = NoObj) =>
           handler[t].status = 404

\* ---- C27
\* no manager call and no administrative request is under way
Quiescent ==
  /\ phase = "serving"
  /\ \A t \in Tasks : pc[t] = "idle"
  /\ \A t \in ApiTasks : handler[t].state \in {"none", "done"}

\* C27: after start-up and between administrative requests, the names in
\* the config file are the names in the registry.
C27_FileNamesAreRegistryNames ==
  Quiescent => { configFile[i] : i \in 1..Len(configFile) } = Registered

\* ---- C28
\* C28: while two tasks add and remove services of different names and a
\* third looks services up, a name whose task is between calls is in the
\* registry exactly if the last mutation of it that returned nil was an add;
\* GetService returns what the registry held for the name, and
\* GetAllServices what the registry held, at a moment between call and return
\* at which no mutation was inside its critical section.
C28_NoLostUpdateAndConsistentLookups ==
  /\ [](\A t \in ConcTasks :
          pc[t] = "idle" => (services[NameOf(t)] # NoObj <=> lastOk[NameOf(t)] = "add"))
  /\ [][/\ (lookup.state = "called" /\ lookup'.state = "returned") =>
             (mu = "free" /\ lookup'.result = services[lookup.name])
        /\ (got' # got /\ got'.last = "get") =>
             (mu = "free" /\ got'.ref = "copy" /\ got'.m = services)]_vars

\* both tasks have added their service, the second is inside a remove, and a
\* lookup of the first name has returned its Service
C28_Witness ==
  /\ lastOk["a"] = "add" /\ lastOk["b"] = "add"
  /\ pc["api1"] = "idle" /\ pc["api2"] = "rm_delete"
  /\ lookup.state = "returned" /\ lookup.name = "a"
  /\ lookup.result # NoObj /\ lookup.result = services["a"]

\* ---- C29
\* C29: while a manager call holds the registry lock, every running prober
\* can take its next tick and write the health flag, every serving Service
\* can take a request and read the flag, and a forward under way can finish;
\* and none of these steps takes, releases or waits for the lock, or touches
\* the registry.
C29_ProbesAndRequestsBesideTheLock ==
  /\ [](mu # "free" =>
          /\ \A o \in ObjIds :
               probers[o].state = "running" =>
                 ENABLED (\E out \in ProbeOutcomes : Probe(o, out))
          /\ \A o \in ObjIds :
               (ServingTasks(objs[o]) # {} /\ req.state # "forwarding") =>
                 ENABLED HandleBegin(o, Slash)
          /\ req.state = "forwarding" =>
               ENABLED (\E out \in ProxyOutcomes : HandleForward(out)))
  /\ [][(underLock' # underLock \/ req' # req
           \/ \E o \in ObjIds : probers'[o].failureCount # probers[o].failureCount) =>
          (mu' = mu /\ pc' = pc /\ services' = services)]_vars

\* an AddService is inside its critical section; since a manager call took
\* the lock a probe has run and has marked its service unhealthy, and a
\* request has been taken and is being forwarded
C29_Witness ==
  /\ mu = "api1" /\ pc["api1"] = "add_parse"
  /\ underLock = {"probe", "request"}
  /\ req.state = "forwarding"
  /\ \E o \in ObjIds : probers[o].state = "running" /\ ~objs[o].healthy

\* ---- C30
\* C30: once the shared context is cancelled or stopCh is closed, the
\* process does not go on for ever with a prober still running; a prober that
\* has returned has stopped its ticker, does not run again, and the health
\* flag of its Service is not written any more.
C30_ProbersExitAfterSignal ==
  /\ (ctxDone \/ stopClosed) ~>
       (phase = "exited" \/ \A o \in ObjIds : probers[o].state # "running")
  /\ [](\A o \in ObjIds : probers[o].state = "exited" => probers[o].ticker = "stopped")
  /\ [][\A o \in ObjIds :
          probers[o].state = "exited" =>
            /\ probers'[o].state # "running"
            /\ probers'[o].ticker # "running"
            /\ objs'[o] = Unallocated \/ objs'[o].healthy = objs[o].healthy]_vars

\* the context is cancelled, main has not yet called Checker.Stop, and one of
\* two probers has returned, after it had marked its service unhealthy, while
\* the other still runs
C30_Witness ==
  /\ ctxDone /\ ~stopClosed /\ phase = "cancelled"
  /\ \E o, q \in ObjIds :
       /\ probers[o].state = "exited" /\ probers[o].ticker = "stopped"
       /\ probers[o].failureCount > 0 /\ ~objs[o].healthy
       /\ probers[q].state = "running" /\ probers[q].ticker = "running"

\* ---- C31
\* C31: a probe of a backend that never answers returns, as a failed probe
\* that is counted; after it the prober is at its select again, where the
\* next tick can be taken and a stop signal that has been given makes it
\* return; and once a stop signal is given the prober does return.
C31_HungProbeReturnsFailed ==
  /\ (probe.state = "inflight" /\ probe.backend = "hung") ~>
       (probe.state = "returned" /\ probe.backend = "hung" /\ ~probe.result)
  /\ [][(probe.state = "inflight" /\ probe.backend = "hung" /\ probe'.state = "returned") =>
          /\ probe'.out.err = "timeout"
          /\ probers'[probe.svc].failureCount = probers[probe.svc].failureCount + 1]_vars
  /\ [](probe.state = "returned" /\ probers[probe.svc].state = "running" =>
          /\ probers[probe.svc].failureCount < MaxFail =>
               ENABLED (\E b \in BackendModes : ProbeStart(probe.svc, b))
          /\ (ctxDone \/ stopClosed) => ENABLED (AtSelect(probe.svc) /\ ProberExit(probe.svc)))
  /\ (ctxDone \/ stopClosed) ~> (\A o \in ObjIds : probers[o].state # "running")

\* the context was cancelled while the prober was inside a probe of a hung
\* backend; the probe has returned as a failure that brought the counter to
\* the threshold, and the prober has not yet returned
C31_Witness ==
  /\ probe.state = "returned" /\ probe.backend = "hung" /\ ~probe.result
  /\ probers[probe.svc].state = "running"
  /\ probers[probe.svc].failureCount = 2 /\ ~objs[probe.svc].healthy
  /\ ctxDone

\* ---- C34
\* C34: performCheck reports a failure exactly when the request could not be
\* built, the request ended in an error, or the status of the response is
\* below 200 or at least 400; with a status in 200..399 it reports success.
\* A failure is counted, a success resets the counter and sets the flag.
C34_ProbeFailsOutside200To399 ==
  probe.state = "returned" =>
    /\ ~probe.result <=>
         \/ probe.out.err \in {"build", "network", "timeout"}
         \/ probe.out.status < 200
         \/ probe.out.status >= 400
    /\ (probe.out.err = "none" /\ probe.out.status \in 200..399) => probe.result
    /\ probe.result => (probers[probe.svc].failureCount = 0 /\ objs[probe.svc].healthy)
    /\ ~probe.result => probers[probe.svc].failureCount > 0

\* a probe answered with 399 has returned as a success and has set the flag
\* of a service that was unhealthy back to true
C34_Witness ==
  /\ probe.state = "returned" /\ probe.out.err = "none" /\ probe.out.status = 399
  /\ probe.result
  /\ probers[probe.svc].recovered /\ objs[probe.svc].healthy

\* ---- C39
\* C39: the step in which the prober of a service counts a probe, failed or
\* successful, changes nothing but that service's health flag and that
\* prober's own counter: every other Service object and every other prober
\* is as before, and so is the registry.
C39_ProbeTouchesOnlyItsOwnService ==
  [][(probe.state = "inflight" /\ probe'.state = "returned") =>
       LET o == probe.svc
       IN /\ services' = services
          /\ \A b \in ObjIds \ {o} : objs'[b] = objs[b] /\ probers'[b] = probers[b]
          /\ objs'[o] = [objs[o] EXCEPT !.healthy = objs'[o].healthy]
          /\ probers'[o].state = probers[o].state]_vars

\* a failed probe of one service has returned and left it unhealthy, while
\* another service with a running prober is healthy and has a different
\* number of failures counted
C39_Witness ==
  /\ probe.state = "returned" /\ ~probe.result
  /\ ~objs[probe.svc].healthy
  /\ \E b \in ObjIds \ {probe.svc} :
       /\ probers[b].state = "running" /\ probers[probe.svc].state = "running"
       /\ objs[b].healthy
       /\ probers[b].failureCount # probers[probe.svc].failureCount

\* ---- C35
\* C35: a Service for which no prober was ever started, because its health
\* check is disabled or because it was added after the probers were started,
\* has its flag true in every state, and a request on it is never answered
\* 503 by the health gate; the flag of a Service changes only in a step in
\* which that Service's own running prober counts a probe.
C35_UnprobedServiceStaysHealthy ==
  /\ [](\A o \in ObjIds :
          (objs[o] # Unallocated /\ probers[o].state = "none") =>
            /\ objs[o].healthy
            /\ (req.state # "none" /\ req.svc = o) =>
                 (req.sawHealthy /\ req.origin # "gate"))
  /\ [][\A o \in ObjIds :
          (objs[o] # Unallocated /\ objs'[o] # Unallocated
             /\ objs'[o].healthy # objs[o].healthy) =>
            (probers[o].state = "running" /\ probe'.svc = o)]_vars

\* "a" was added again with its health check enabled and has no prober; it
\* has answered a request from the backend while the prober of the removed
\* instance holds that instance unhealthy, and "b" is registered unprobed
C35_Witness ==
  \E o \in ObjIds, q \in ObjIds :
    /\ services["a"] = o /\ objs[o].cfg.hc /\ probers[o].state = "none"
    /\ req.svc = o /\ req.state = "done" /\ req.origin = "backend"
    /\ q # o /\ probers[q].state = "running" /\ ~objs[q].healthy
    /\ services["b"] # NoObj /\ probers[services["b"]].state = "none"

\* ---- C36
\* C36: the Service registered anew under a name starts with its flag true,
\* whatever the flag of the instance removed before; a probe counted by the
\* prober of the removed instance leaves the Service now registered under
\* the name as it was, so the flag its handler and GetServiceStatus read
\* stays true.
C36_NewInstanceUntouchedByStaleProber ==
  /\ [][\A n \in Names :
          (services'[n] # NoObj /\ services'[n] # services[n]) =>
            objs'[services'[n]].healthy]_vars
  /\ [][(probe' # probe /\ probe'.state = "returned"
           /\ probe'.seen # NoObj /\ probe'.seen # probe'.svc) =>
          objs'[probe'.seen] = objs[probe'.seen]]_vars
  /\ [](\A n \in Names :
          (services[n] # NoObj /\ probe.state = "returned" /\ probe.seen = services[n]
             /\ probe.svc # services[n] /\ probers[services[n]].state = "none") =>
            objs[services[n]].healthy)

\* the prober of the removed "a" has counted a failed probe while a new "a"
\* was registered: the removed instance is unhealthy, the new one healthy
C36_Witness ==
  /\ probe.state = "returned" /\ ~probe.result
  /\ probe.seen # NoObj /\ probe.seen # probe.svc
  /\ services["a"] = probe.seen
  /\ objs[probe.svc].cfg.name = "a" /\ ~objs[probe.svc].healthy
  /\ objs[probe.seen].healthy

\* ---- C32
\* C32: a request being forwarded is answered from what its handler closed
\* over, the response of the backend or the error handler's 502, whether or
\* not its Service is still registered, and the step changes neither the
\* registry nor another Service; the steps of a RemoveService leave the
\* request, the other names of the registry and their Services as they were.
C32_InFlightRequestUsesCapturedState ==
  /\ [][(req.state = "forwarding" /\ req'.state = "done") =>
          /\ req'.svc = req.svc /\ req'.fwdPath = req.fwdPath
          /\ req'.sawHealthy = req.sawHealthy
          /\ req'.origin = (IF req'.out.err THEN "errorHandler" ELSE "backend")
          /\ req'.status = (IF req'.out.err THEN 502 ELSE req'.out.status)
          /\ services' = services
          /\ \A o \in ObjIds \ {req.svc} : objs'[o] = objs[o]]_vars
  /\ [][\A t \in Tasks :
          (pc[t] \in {"rm_close", "rm_delete"} /\ pc'[t] # pc[t]) =>
            /\ req' = req
            /\ \A n \in Names \ {local[t].name} :
                 /\ services'[n] = services[n]
                 /\ services[n] # NoObj => objs'[services[n]] = objs[services[n]]]_vars

\* a request that was being forwarded when its service was removed has been
\* answered 200 by the backend; the service is closed and out of the
\* registry, and "b" is registered
C32_Witness ==
  /\ req.state = "done" /\ req.orphan
  /\ req.origin = "backend" /\ req.status = 200
  /\ objs[req.svc].ts = "closed"
  /\ services["a"] = NoObj /\ objs[req.svc].cfg.name = "a"
  /\ services["b"] # NoObj

\* ---- C33
\* C33: Manager.Shutdown begins only after both stop signals of the probers
\* were given, and when main has returned Shutdown has returned, the
\* registry is empty and no Service is left with a started tsnet server, an
\* open listener or a goroutine accepting on one.
C33_TeardownCompleteAtExit ==
  /\ phase \in {"shutdown", "exited"} => (ctxDone /\ stopClosed)
  /\ phase = "exited" =>
       /\ pc["main"] = "idle" /\ local["main"].op = "shutdown"
       /\ Registered = {}
       /\ \A o \in ObjIds :
            objs[o] # Unallocated => (~Live(objs[o]) /\ ServingTasks(objs[o]) = {})

\* the two tasks have both called AddService(n) and both calls have returned
BothAdded(n) ==
  \A t \in ConcTasks : pc[t] = "idle" /\ local[t].op = "add" /\ local[t].name = n

C40_RemoveAlwaysDeletesAndReturnsNil ==
  [][\A t \in Tasks :
       /\ (pc[t] = "idle" /\ local'[t] # local[t] /\ local'[t].op = "remove") =>
            (local'[t].ret = "not_found" <=> local'[t].name \notin Registered)
       /\ (pc[t] = "rm_close" /\ pc'[t] # pc[t]) =>
            (pc'[t] = "rm_delete" /\ services' = services
               /\ objs'[local[t].svc].closes = 1 /\ ~Live(objs'[local[t].svc]))
       /\ (pc[t] = "rm_delete" /\ pc'[t] # pc[t]) =>
            /\ pc'[t] = "idle" /\ local'[t].ret = "nil" /\ mu' = "free"
            /\ local[t].name \in Registered
            /\ local[t].name \notin { n \in Names : services'[n] # NoObj }
            /\ objs[local[t].svc].closes = 1
       /\ pc[t] = "rm_close" =>
            services'[local[t].name] = services[local[t].name]
       /\ (pc[t] = "idle" /\ local'[t] # local[t] /\ local'[t].op = "add"
             /\ local'[t].ret = "exists") => local'[t].name \in Registered]_vars

\* a RemoveService("a") in which deleteDevice and Close both reported an
\* error has returned nil, and an AddService("a") by another task after it
\* has registered a new Service
C40_Witness ==
  \E t \in ApiTasks, u \in PeerTasks :
    /\ pc[t] = "idle" /\ local[t].op = "remove" /\ local[t].name = "a"
    /\ local[t].ret = "nil" /\ local[t].failed = ReleaseCalls
    /\ pc[u] = "idle" /\ local[u].op = "add" /\ local[u].name = "a"
    /\ local[u].ret = "nil" /\ services["a"] = local[u].svc
    /\ local[u].svc # local[t].svc

\* ---- C38
\* C38: when two handlers, for distinct names, have both succeeded in the
\* manager and both finished their update of the config, the service list of
\* the config holds the name of each add and not the name of each remove,
\* and the file holds the names of that list.
C38_ConcurrentUpdatesBothKept ==
  (\A t \in ConcTasks : saver[t].state = "done") =>
     /\ \A t \in ConcTasks :
          LET listed == \E i \in 1..Len(cfgServices) : cfgServices[i].name = saver[t].name
          IN IF saver[t].kind = "add" THEN listed ELSE ~listed
     /\ configFile = ServiceNames(cfgServices)

====
